---- MODULE Spec2Model ----
(***************************************************************************)
(* A model of the Hive SQL source-table extractor (HiveSqlParser in        *)
(* src-tauri/src/lib.rs) and of its host command (src-tauri/src/main.rs).  *)
(*                                                                         *)
(* Text is a sequence of chunks.  A chunk is an indivisible piece of the   *)
(* input string: a word (letters, digits, underscores), one blank " ", one *)
(* line feed, one punctuation mark, or one of the three comment marks      *)
(* (two dashes, slash-star, star-slash).  No pattern the program           *)
(* searches for can straddle a chunk boundary, except that two words left  *)
(* adjacent by the removal of a comment form one word (MergeWords).        *)
(***************************************************************************)
EXTENDS Integers, Sequences, FiniteSets, TLC

(***************************************************************************)
(* Generic helpers on sequences.                                           *)
(***************************************************************************)
Range(s) == {s[i] : i \in DOMAIN s}

Drop(s, n) == SubSeq(s, n + 1, Len(s))

Take(s, n) == SubSeq(s, 1, n)

IsPrefix(s, t) == Len(s) <= Len(t) /\ Take(t, Len(s)) = s

Count(n, s) == Cardinality({i \in DOMAIN s : s[i] = n})

Min(S) == CHOOSE m \in S : \A k \in S : m <= k

Max(S) == CHOOSE m \in S : \A k \in S : m >= k

(***************************************************************************)
(* Character classes.                                                      *)
(***************************************************************************)
Blank == {" ", "\n", "\t"}

Punct == {"(", ")", ",", ".", "*", "=", ">", ";", "'", "--", "/*", "*/"}

Digits == {"1", "4"}

IsWord(c) == c \notin Blank /\ c \notin Punct

\* str::to_lowercase on one chunk; only words carry letters.
Lower(c) ==
  CASE c = "USE" -> "use"
    [] c = "SET" -> "set"
    [] c = "SELECT" -> "select"
    [] c = "FROM" -> "from"
    [] c = "T1" -> "t1"
    [] c = "DB1" -> "db1"
    [] OTHER -> c

\* The text left in the case it was written in.
to_lowercase_keeping_case(s) == s

to_lowercase(s) == [i \in DOMAIN s |-> Lower(s[i])]

\* str::trim: leading and trailing white space removed.
RECURSIVE TrimStart(_)
TrimStart(s) ==
  IF s # <<>> /\ Head(s) \in Blank THEN TrimStart(Tail(s)) ELSE s

RECURSIVE TrimEnd(_)
TrimEnd(s) ==
  IF s # <<>> /\ s[Len(s)] \in Blank THEN TrimEnd(Take(s, Len(s) - 1)) ELSE s

trim(s) == TrimEnd(TrimStart(s))

\* str::split on one separator chunk: the pieces between the separators,
\* empty pieces included.
RECURSIVE SplitOn(_, _)
SplitOn(s, sep) ==
  IF \E i \in DOMAIN s : s[i] = sep
    THEN LET i == Min({j \in DOMAIN s : s[j] = sep})
         IN  <<Take(s, i - 1)>> \o SplitOn(Drop(s, i), sep)
    ELSE <<s>>

\* str::lines: split at line feeds; a final empty line is not a line.
lines(s) ==
  LET p == SplitOn(s, "\n")
  IN  IF p[Len(p)] = <<>> THEN Take(p, Len(p) - 1) ELSE p

\* [&str]::join with one separator chunk.
RECURSIVE JoinWith(_, _)
JoinWith(ss, sep) ==
  IF ss = <<>> THEN <<>>
  ELSE IF Len(ss) = 1 THEN ss[1]
  ELSE ss[1] \o <<sep>> \o JoinWith(Tail(ss), sep)

\* Two words with nothing between them are one word of the string.
RECURSIVE MergeWords(_)
MergeWords(s) ==
  IF Len(s) < 2 THEN s
  ELSE IF IsWord(s[1]) /\ IsWord(s[2])
    THEN MergeWords(<<s[1] \o s[2]>> \o Drop(s, 2))
    ELSE <<s[1]>> \o MergeWords(Tail(s))

(***************************************************************************)
(* remove_hive_sql_comments                                                *)
(***************************************************************************)
\* multiline_comment_re replaced by "" everywhere: from the leftmost
\* slash-star to the first star-slash after it; an unclosed one stays.
RECURSIVE RemoveMultiline(_)
RemoveMultiline(s) ==
  LET opens == {i \in DOMAIN s : s[i] = "/*" /\ \E j \in DOMAIN s : j > i /\ s[j] = "*/"}
  IN  IF opens = {} THEN s
      ELSE LET i == Min(opens)
               j == Min({k \in DOMAIN s : k > i /\ s[k] = "*/"})
           IN  Take(s, i - 1) \o RemoveMultiline(Drop(s, j))

\* singleline_comment_re = --[^\n]* replaced by "" everywhere: from "--" up
\* to, not including, the next line feed.
RECURSIVE RemoveSingleline(_)
RemoveSingleline(s) ==
  LET dashes == {i \in DOMAIN s : s[i] = "--"}
  IN  IF dashes = {} THEN s
      ELSE LET i == Min(dashes)
               nl == {k \in DOMAIN s : k > i /\ s[k] = "\n"}
           IN  IF nl = {} THEN Take(s, i - 1)
               ELSE Take(s, i - 1) \o RemoveSingleline(Drop(s, Min(nl) - 1))

remove_hive_sql_comments(query) ==
  LET without_multiline_comments == RemoveMultiline(query)
      without_comments == RemoveSingleline(without_multiline_comments)
      ls == lines(without_comments)
      trimmed == [i \in DOMAIN ls |-> trim(ls[i])]
      kept == SelectSeq(trimmed, LAMBDA l : l # <<>>)
  IN  MergeWords(JoinWith(kept, "\n"))

(***************************************************************************)
(* The bucketing pattern of parse, an optional group "partitioned by" and  *)
(* anything after it, then "clustered by", a parenthesis without ")" in    *)
(* it, "into", digits, "buckets", with white space between the words.      *)
(***************************************************************************)
\* The position after the run of white space that starts at i.
RECURSIVE SkipBlank(_, _)
SkipBlank(s, i) ==
  IF i <= Len(s) /\ s[i] \in Blank THEN SkipBlank(s, i + 1) ELSE i

At(s, i, c) == i <= Len(s) /\ s[i] = c

\* partitioned\s+by at i: the position after it, or 0.
MatchPartitionedBy(s, i) ==
  IF At(s, i, "partitioned") /\ SkipBlank(s, i + 1) > i + 1
        /\ At(s, SkipBlank(s, i + 1), "by")
    THEN SkipBlank(s, i + 1) + 1
    ELSE 0

\* The clustered-by clause at i: the position after it, or 0.
MatchClustered(s, i) ==
  LET b == SkipBlank(s, i + 1)
      o == SkipBlank(s, b + 1)
      closes == {k \in DOMAIN s : k > o /\ s[k] = ")"}
      c == IF closes = {} THEN 0 ELSE Min(closes)
      n == SkipBlank(s, c + 1)
      d == SkipBlank(s, n + 1)
      e == SkipBlank(s, d + 1)
  IN  IF /\ At(s, i, "clustered") /\ b > i + 1 /\ At(s, b, "by")
         /\ At(s, o, "(") /\ c > o + 1
         /\ n > c + 1 /\ At(s, n, "into")
         /\ d > n + 1 /\ d <= Len(s) /\ s[d] \in Digits
         /\ e > d + 1 /\ At(s, e, "buckets")
        THEN e + 1
        ELSE 0

\* The whole pattern at i: the position after the match, or 0.  The optional
\* group is tried first and its .* is greedy, so the clause matched after
\* "partitioned by" is the last one of the text.
MatchBucket(s, i) ==
  LET p == MatchPartitionedBy(s, i)
      after == {k \in DOMAIN s : k >= p /\ MatchClustered(s, k) > 0}
  IN  IF p > 0 /\ after # {} THEN MatchClustered(s, Max(after))
      ELSE MatchClustered(s, i)

\* re.replace_all(&query, ""): leftmost matches, left to right.
RECURSIVE RemoveBucketFrom(_, _)
RemoveBucketFrom(s, i) ==
  IF i > Len(s) THEN s
  ELSE IF MatchBucket(s, i) > 0
    THEN Take(s, i - 1) \o RemoveBucketFrom(Drop(s, MatchBucket(s, i) - 1), 1)
    ELSE RemoveBucketFrom(s, i + 1)

RemoveBucket(s) == RemoveBucketFrom(s, 1)

\* The body of the loop of parse up to the println: one piece of the split
\* input, cleaned.
Clean(piece) ==
  remove_hive_sql_comments(RemoveBucket(to_lowercase(trim(piece))))

(***************************************************************************)
(* The SQL parsing library, Parser::parse_sql(&HiveDialect, query), on the *)
(* part of the grammar the extractor's handlers look at.  A token is a     *)
(* pair <<kind, text>>.                                                    *)
(***************************************************************************)
\* The tokenizer: white space separates, a quote opens a string literal that
\* runs to the next quote, an unclosed comment or literal is an error.
RECURSIVE TokenizeFrom(_, _)
TokenizeFrom(s, i) ==
  IF i > Len(s) THEN [ok |-> TRUE, toks |-> <<>>]
  ELSE IF s[i] \in Blank THEN TokenizeFrom(s, i + 1)
  ELSE IF s[i] = "/*" THEN [ok |-> FALSE, toks |-> <<>>]
  ELSE IF s[i] = "'"
    THEN LET closes == {k \in DOMAIN s : k > i /\ s[k] = "'"}
         IN  IF closes = {} THEN [ok |-> FALSE, toks |-> <<>>]
             ELSE LET r == TokenizeFrom(s, Min(closes) + 1)
                  IN  [ok |-> r.ok,
                       toks |-> <<<<"str", SubSeq(s, i + 1, Min(closes) - 1)>>>> \o r.toks]
  ELSE LET r == TokenizeFrom(s, i + 1)
           kind == IF ~IsWord(s[i]) THEN "sym"
                   ELSE IF s[i] \in Digits THEN "num" ELSE "word"
       IN  [ok |-> r.ok, toks |-> <<<<kind, s[i]>>>> \o r.toks]

Tokenize(s) == TokenizeFrom(s, 1)

Eof == <<"eof", "">>

Tok(t, i) == IF i >= 1 /\ i <= Len(t) THEN t[i] ELSE Eof

Kw(t, i, w) == Tok(t, i) = <<"word", w>>

Sym(t, i, c) == Tok(t, i) = <<"sym", c>>

\* Words that are no identifier and no table alias.
Reserved ==
  {"select", "from", "where", "having", "group", "by", "join", "on", "union",
   "all", "with", "as", "insert", "into", "overwrite", "table", "create",
   "view", "exists", "in", "not", "and", "or", "values", "directory",
   "partitioned", "clustered", "buckets", "use", "set"}

IsIdent(t, i) == Tok(t, i)[1] = "word" /\ Tok(t, i)[2] \notin Reserved

\* A parse result: ok, the position after what was parsed, the value.
Fail == [ok |-> FALSE, pos |-> 0, val |-> <<>>]

Done(p, v) == [ok |-> TRUE, pos |-> p, val |-> v]

None == <<>>

Some(v) == <<v>>

\* K applied to the value e, which is written once and used under one name.
Bind(e, K(_)) == K(e)

\* The parser's `?`: what follows a result is computed from it only when it
\* is no error.
AndThen(r, K(_)) == IF r.ok THEN K(r) ELSE Fail

\* The token at i is c: the result of going past it.
Expect(t, i, c, v) == IF Sym(t, i, c) THEN Done(i + 1, v) ELSE Fail

\* parse_object_name: identifiers separated by periods; the value is the
\* sequence of the identifiers' values.
RECURSIVE ParseObjectName(_, _)
ParseObjectName(t, i) ==
  IF ~IsIdent(t, i) THEN Fail
  ELSE IF Sym(t, i + 1, ".")
    THEN AndThen(ParseObjectName(t, i + 2), LAMBDA r : Done(r.pos, <<t[i][2]>> \o r.val))
    ELSE Done(i + 1, <<t[i][2]>>)

\* parse_optional_table_alias: [AS] identifier; the position after it.
SkipAlias(t, i) ==
  IF Kw(t, i, "as") /\ IsIdent(t, i + 1) THEN i + 2
  ELSE IF IsIdent(t, i) THEN i + 1
  ELSE i

\* A parenthesised list of column definitions or of column names, as in
\* (id int, name string) and (id), from its first column on: the result of
\* going past it.
RECURSIVE ParseColumns(_, _)
ParseColumns(t, i) ==
  IF ~IsIdent(t, i) THEN Fail
  ELSE Bind(IF IsIdent(t, i + 1) THEN i + 2 ELSE i + 1,
            LAMBDA j : IF Sym(t, j, ",") THEN ParseColumns(t, j + 1)
                       ELSE Expect(t, j, ")", None))

StartsQuery(t, i) == Kw(t, i, "select") \/ Kw(t, i, "with")

\* The rules of the grammar that the others come back to: Parse(rule, t, i)
\* is ParseStatement, ParseQuery, ParseExpr or ParseTableWithJoins at token i
\* of t.
RECURSIVE Parse(_, _, _)

\* "(" query ")" with the "(" at i.
ParseParenQuery(t, i) ==
  IF ~(Sym(t, i, "(") /\ (StartsQuery(t, i + 1) \/ Sym(t, i + 1, "("))) THEN Fail
  ELSE AndThen(Parse("query", t, i + 1), LAMBDA q : Expect(t, q.pos, ")", q.val))

\* parse_prefix: EXISTS (query), NOT EXISTS (query), (query), (expr), an
\* identifier, a number or a string.
ParsePrimary(t, i) ==
  IF Kw(t, i, "exists") \/ (Kw(t, i, "not") /\ Kw(t, i + 1, "exists"))
    THEN AndThen(ParseParenQuery(t, IF Kw(t, i, "not") THEN i + 2 ELSE i + 1),
                 LAMBDA q : Done(q.pos, [kind |-> "Exists", subquery |-> q.val]))
  ELSE IF Sym(t, i, "(") /\ StartsQuery(t, i + 1)
    THEN AndThen(ParseParenQuery(t, i),
                 LAMBDA q : Done(q.pos, [kind |-> "Subquery", subquery |-> q.val]))
  ELSE IF Sym(t, i, "(")
    THEN AndThen(Parse("expr", t, i + 1),
                 LAMBDA e : Expect(t, e.pos, ")", [kind |-> "Nested", expr |-> e.val]))
  ELSE IF IsIdent(t, i)
    THEN AndThen(ParseObjectName(t, i), LAMBDA n : Done(n.pos, [kind |-> "Identifier"]))
  ELSE IF Tok(t, i)[1] \in {"num", "str"} THEN Done(i + 1, [kind |-> "Value"])
  ELSE Fail

\* What follows the left operand l of a comparison: an operator and the
\* right operand, or [NOT] IN (query), or nothing.
ParseCmpRest(t, l) ==
  IF Sym(t, l.pos, "=") \/ Sym(t, l.pos, ">")
    THEN AndThen(ParsePrimary(t, l.pos + 1),
                 LAMBDA r : Done(r.pos, [kind |-> "BinaryOp", left |-> l.val,
                                         right |-> r.val]))
  ELSE IF Kw(t, l.pos, "in") \/ (Kw(t, l.pos, "not") /\ Kw(t, l.pos + 1, "in"))
    THEN AndThen(ParseParenQuery(t, IF Kw(t, l.pos, "in") THEN l.pos + 1 ELSE l.pos + 2),
                 LAMBDA q : Done(q.pos, [kind |-> "InSubquery", subquery |-> q.val]))
  ELSE l

\* A comparison binds tighter than AND and OR.
ParseCmp(t, i) == AndThen(ParsePrimary(t, i), LAMBDA l : ParseCmpRest(t, l))

RECURSIVE ParseAndRest(_, _, _)
ParseAndRest(t, i, left) ==
  IF ~Kw(t, i, "and") THEN Done(i, left)
  ELSE AndThen(ParseCmp(t, i + 1),
               LAMBDA r : ParseAndRest(t, r.pos, [kind |-> "BinaryOp", left |-> left,
                                                  right |-> r.val]))

ParseAnd(t, i) == AndThen(ParseCmp(t, i), LAMBDA l : ParseAndRest(t, l.pos, l.val))

RECURSIVE ParseOrRest(_, _, _)
ParseOrRest(t, i, left) ==
  IF ~Kw(t, i, "or") THEN Done(i, left)
  ELSE AndThen(ParseAnd(t, i + 1),
               LAMBDA r : ParseOrRest(t, r.pos, [kind |-> "BinaryOp", left |-> left,
                                                 right |-> r.val]))

\* parse_expr: operators are left associative, OR binds loosest.
ParseExpr(t, i) == AndThen(ParseAnd(t, i), LAMBDA l : ParseOrRest(t, l.pos, l.val))

\* parse_table_factor: a derived table (query) [alias], a join in
\* parentheses (table JOIN ...) [alias], or a table name [alias].
ParseTableFactor(t, i) ==
  IF Sym(t, i, "(") /\ IsIdent(t, i + 1)
    THEN AndThen(Parse("table_and_joins", t, i + 1), LAMBDA n :
           IF n.val.joins = <<>> THEN Fail
           ELSE AndThen(Expect(t, n.pos, ")", n.val), LAMBDA c :
                  Done(SkipAlias(t, c.pos),
                       [kind |-> "NestedJoin", table_with_joins |-> c.val])))
  ELSE IF Sym(t, i, "(")
    THEN AndThen(ParseParenQuery(t, i),
                 LAMBDA q : Done(SkipAlias(t, q.pos),
                                 [kind |-> "Derived", subquery |-> q.val]))
    ELSE AndThen(ParseObjectName(t, i),
                 LAMBDA n : Done(SkipAlias(t, n.pos), [kind |-> "Table", name |-> n.val]))

\* The joins of one FROM entry: JOIN factor [ON expr], repeated.
RECURSIVE ParseJoins(_, _)
ParseJoins(t, i) ==
  IF ~Kw(t, i, "join") THEN Done(i, <<>>)
  ELSE AndThen(ParseTableFactor(t, i + 1), LAMBDA f :
       AndThen(IF Kw(t, f.pos, "on") THEN Parse("expr", t, f.pos + 1) ELSE Done(f.pos, None),
               LAMBDA c :
       AndThen(ParseJoins(t, c.pos), LAMBDA r :
         Done(r.pos, <<[relation |-> f.val]>> \o r.val))))

\* parse_table_and_joins
ParseTableWithJoins(t, i) ==
  AndThen(ParseTableFactor(t, i), LAMBDA f :
  AndThen(ParseJoins(t, f.pos), LAMBDA j :
    Done(j.pos, [relation |-> f.val, joins |-> j.val])))

\* The FROM list: entries separated by commas.
RECURSIVE ParseFrom(_, _)
ParseFrom(t, i) ==
  AndThen(ParseTableWithJoins(t, i), LAMBDA e :
    IF Sym(t, e.pos, ",")
      THEN AndThen(ParseFrom(t, e.pos + 1), LAMBDA r : Done(r.pos, <<e.val>> \o r.val))
      ELSE Done(e.pos, <<e.val>>))

\* The optional clause of a select that is the keyword kw and a predicate.
ParseOptionalExpr(t, i, kw) ==
  IF Kw(t, i, kw)
    THEN AndThen(Parse("expr", t, i + 1), LAMBDA e : Done(e.pos, Some(e.val)))
    ELSE Done(i, None)

\* parse_select: SELECT * | name  [FROM list] [WHERE expr] [HAVING expr]
ParseSelect(t, i) ==
  IF ~Kw(t, i, "select") THEN Fail
  ELSE
    AndThen(IF Sym(t, i + 1, "*") THEN Done(i + 2, None) ELSE ParsePrimary(t, i + 1),
            LAMBDA p :
    AndThen(IF Kw(t, p.pos, "from") THEN ParseFrom(t, p.pos + 1) ELSE Done(p.pos, <<>>),
            LAMBDA f :
    AndThen(ParseOptionalExpr(t, f.pos, "where"), LAMBDA w :
    AndThen(ParseOptionalExpr(t, w.pos, "having"), LAMBDA h :
      Done(h.pos, [from |-> f.val, selection |-> w.val, having |-> h.val])))))

\* One operand of a query body: a select, a parenthesised query, or VALUES.
ParseTerm(t, i) ==
  IF Kw(t, i, "select")
    THEN AndThen(ParseSelect(t, i),
                 LAMBDA s : Done(s.pos, [kind |-> "Select", select |-> s.val]))
  ELSE IF Sym(t, i, "(")
    THEN AndThen(ParseParenQuery(t, i),
                 LAMBDA q : Done(q.pos, [kind |-> "Query", query |-> q.val]))
  ELSE IF Kw(t, i, "values") /\ Sym(t, i + 1, "(") /\ Tok(t, i + 2)[1] \in {"num", "str"}
          /\ Sym(t, i + 3, ")")
    THEN Done(i + 4, [kind |-> "Values"])
  ELSE Fail

RECURSIVE ParseBodyRest(_, _, _)
ParseBodyRest(t, i, left) ==
  IF ~Kw(t, i, "union") THEN Done(i, left)
  ELSE AndThen(ParseTerm(t, IF Kw(t, i + 1, "all") THEN i + 2 ELSE i + 1),
               LAMBDA r : ParseBodyRest(t, r.pos, [kind |-> "SetOperation",
                                                   left |-> left, right |-> r.val]))

\* parse_query_body: operands joined by UNION [ALL], left associative.
ParseBody(t, i) == AndThen(ParseTerm(t, i), LAMBDA l : ParseBodyRest(t, l.pos, l.val))

\* The definitions of a WITH clause: alias AS (query), separated by commas.
RECURSIVE ParseCtes(_, _)
ParseCtes(t, i) ==
  IF ~(IsIdent(t, i) /\ Kw(t, i + 1, "as")) THEN Fail
  ELSE AndThen(ParseParenQuery(t, i + 2), LAMBDA q :
         IF Sym(t, q.pos, ",")
           THEN AndThen(ParseCtes(t, q.pos + 1),
                        LAMBDA r : Done(r.pos, <<[alias |-> t[i][2], query |-> q.val]>>
                                                 \o r.val))
           ELSE Done(q.pos, <<[alias |-> t[i][2], query |-> q.val]>>))

\* parse_insert: INSERT INTO | OVERWRITE [TABLE] name query, and
\* INSERT OVERWRITE DIRECTORY 'path' query.
ParseInsert(t, i) ==
  IF ~(Kw(t, i, "insert") /\ (Kw(t, i + 1, "into") \/ Kw(t, i + 1, "overwrite")))
    THEN Fail
  ELSE IF Kw(t, i + 1, "overwrite") /\ Kw(t, i + 2, "directory")
    THEN IF Tok(t, i + 3)[1] # "str" THEN Fail
         ELSE AndThen(Parse("query", t, i + 4),
                      LAMBDA q : Done(q.pos, [kind |-> "Directory", source |-> q.val]))
  ELSE AndThen(ParseObjectName(t, IF Kw(t, i + 2, "table") THEN i + 3 ELSE i + 2),
               LAMBDA n :
       AndThen(Parse("query", t, n.pos),
               LAMBDA q : Done(q.pos, [kind |-> "Insert", table_name |-> n.val,
                                       source |-> Some(q.val)])))

\* parse_query: [WITH ctes] then INSERT ... (the insert is the body) or a
\* query body.
ParseQuery(t, i) ==
  AndThen(IF Kw(t, i, "with") THEN ParseCtes(t, i + 1) ELSE Done(i, <<>>), LAMBDA w :
  AndThen(IF Kw(t, w.pos, "insert")
            THEN AndThen(ParseInsert(t, w.pos),
                         LAMBDA s : Done(s.pos, [kind |-> "Insert", stmt |-> s.val]))
            ELSE ParseBody(t, w.pos),
          LAMBDA b : Done(b.pos, [with |-> w.val, body |-> b.val])))

\* parse_create: CREATE TABLE name [(columns)] [PARTITIONED BY (columns)]
\* [AS query], and CREATE VIEW name AS query.  The grammar has no CLUSTERED
\* BY clause.
ParseCreate(t, i) ==
  IF ~(Kw(t, i, "create") /\ (Kw(t, i + 1, "table") \/ Kw(t, i + 1, "view"))) THEN Fail
  ELSE
    AndThen(ParseObjectName(t, i + 2), LAMBDA n :
    AndThen(IF Sym(t, n.pos, "(") THEN ParseColumns(t, n.pos + 1) ELSE Done(n.pos, None),
            LAMBDA c :
    AndThen(IF Kw(t, c.pos, "partitioned") /\ Kw(t, c.pos + 1, "by")
                  /\ Sym(t, c.pos + 2, "(")
              THEN ParseColumns(t, c.pos + 3)
              ELSE Done(c.pos, None),
            LAMBDA p :
    AndThen(IF Kw(t, p.pos, "as")
              THEN AndThen(Parse("query", t, p.pos + 1), LAMBDA r : Done(r.pos, Some(r.val)))
              ELSE Done(p.pos, None),
            LAMBDA q :
      IF Kw(t, i + 1, "table")
        THEN Done(q.pos, [kind |-> "CreateTable", name |-> n.val, query |-> q.val])
      ELSE IF q.val # None
        THEN Done(q.pos, [kind |-> "CreateView", name |-> n.val, query |-> q.val[1]])
      ELSE Fail))))

\* parse_statement
ParseStatement(t, i) ==
  IF StartsQuery(t, i) \/ Sym(t, i, "(") \/ Kw(t, i, "values")
    THEN AndThen(Parse("query", t, i),
                 LAMBDA q : Done(q.pos, [kind |-> "Query", query |-> q.val]))
  ELSE IF Kw(t, i, "insert") THEN ParseInsert(t, i)
  ELSE IF Kw(t, i, "create") THEN ParseCreate(t, i)
  ELSE IF Kw(t, i, "use") /\ IsIdent(t, i + 1) THEN Done(i + 2, [kind |-> "Use"])
  ELSE IF Kw(t, i, "set") /\ IsIdent(t, i + 1) /\ Sym(t, i + 2, "=")
          /\ Tok(t, i + 3)[1] \in {"word", "num", "str"}
    THEN Done(i + 4, [kind |-> "SetVariable"])
  ELSE Fail

Parse(rule, t, i) ==
  CASE rule = "statement" -> ParseStatement(t, i)
    [] rule = "query" -> ParseQuery(t, i)
    [] rule = "expr" -> ParseExpr(t, i)
    [] rule = "table_and_joins" -> ParseTableWithJoins(t, i)

\* Parser::parse_sql on one piece (which holds no statement separator): the
\* statements of the text, or an error.
ParseTokens(toks) ==
  IF toks = <<>> THEN [ok |-> TRUE, ast |-> <<>>]
  ELSE Bind(Parse("statement", toks, 1),
            LAMBDA s : IF s.ok /\ s.pos = Len(toks) + 1
                         THEN [ok |-> TRUE, ast |-> <<s.val>>]
                         ELSE [ok |-> FALSE, ast |-> <<>>])

parse_sql(query) ==
  Bind(Tokenize(query),
       LAMBDA l : IF l.ok THEN ParseTokens(l.toks) ELSE [ok |-> FALSE, ast |-> <<>>])

(***************************************************************************)
(* The walk of HiveSqlParser over a statement.  self is the session: the   *)
(* fields of the struct, and resolved, a log of the references handed to   *)
(* add_valid_table_name that the program itself does not keep.             *)
(***************************************************************************)
\* The string made of the given pieces.
RECURSIVE Concat(_)
Concat(pieces) == IF pieces = <<>> THEN "" ELSE Head(pieces) \o Concat(Tail(pieces))

\* The origin name with periods between the identifiers.
get_origin_table_name_dotted(name) ==
  IF Len(name) = 1 THEN name[1] ELSE name[1] \o "." \o Concat(Tail(name))

\* get_origin_table_name: the identifiers' values, nothing between them.
get_origin_table_name(name) == Concat(name)

\* name_parts.join(".")
RECURSIVE JoinDot(_)
JoinDot(name_parts) ==
  IF Len(name_parts) = 1 THEN name_parts[1]
  ELSE name_parts[1] \o "." \o JoinDot(Tail(name_parts))

\* get_actual_table_name without its test on the number of parts.
get_actual_table_name_always_prefixed(self, name) ==
  self.current_database \o "." \o JoinDot(name)

get_actual_table_name(self, name) ==
  IF Len(name) = 2 THEN JoinDot(name)
  ELSE self.current_database \o "." \o JoinDot(name)

add_valid_table_name(self, name) ==
  LET origin_table_name == get_origin_table_name(name)
      recorded == origin_table_name \notin self.cte_names
      logged == [self EXCEPT !.resolved =
                   Append(@, [name |-> name, recorded |-> recorded,
                              cte_names |-> self.cte_names])]
  IN  IF recorded
        THEN [logged EXCEPT !.table_names = Append(@, get_actual_table_name(self, name))]
        ELSE logged

RECURSIVE extract_table_names_from_query(_, _)
RECURSIVE CtesFrom(_, _, _)
RECURSIVE JoinsFrom(_, _, _)
RECURSIVE FromEntriesFrom(_, _, _)
RECURSIVE extract_table_names_from_set_option(_, _)
RECURSIVE handle_statment(_, _)
RECURSIVE StatementJoinsFrom(_, _, _)
RECURSIVE StatementEntriesFrom(_, _, _)

\* extract_cte_names: the loop from the i-th definition on.
CtesFrom(self, cte_tables, i) ==
  IF i > Len(cte_tables) THEN self
  ELSE CtesFrom(
         extract_table_names_from_query(
           [self EXCEPT !.cte_names = @ \cup {cte_tables[i].alias}],
           cte_tables[i].query),
         cte_tables, i + 1)

\* The WITH clause whose aliases are forgotten once the clause has been walked.
extract_cte_names_scoped(self, with) ==
  [CtesFrom(self, with, 1) EXCEPT !.cte_names = self.cte_names]

extract_cte_names(self, with) == CtesFrom(self, with, 1)

\* extract_table_names_from_joins: the loop from the i-th join on.
JoinsFrom(self, joins, i) ==
  IF i > Len(joins) THEN self
  ELSE LET relation == joins[i].relation
           next == CASE relation.kind = "Table" ->
                          add_valid_table_name(self, relation.name)
                     [] relation.kind = "Derived" ->
                          extract_table_names_from_query(self, relation.subquery)
                     [] OTHER -> self
       IN  JoinsFrom(next, joins, i + 1)

extract_table_names_from_joins(self, joins) == JoinsFrom(self, joins, 1)

\* extract_table_names_from_expr going into EXISTS and IN as well.
extract_table_names_from_expr_deeper(self, expr) ==
  IF expr.kind \in {"Subquery", "Exists", "InSubquery"}
    THEN extract_table_names_from_query(self, expr.subquery)
    ELSE IF expr.kind = "BinaryOp" /\ expr.right.kind = "Subquery"
      THEN extract_table_names_from_query(self, expr.right.subquery)
      ELSE self

extract_table_names_from_expr(self, expr) ==
  IF expr.kind = "Subquery"
    THEN extract_table_names_from_query(self, expr.subquery)
    ELSE self

\* The loop over select.from leaving out the joins of a derived table.
FromEntriesFrom_without_joins(self, from, i) ==
  IF i > Len(from) THEN self
  ELSE LET relation == from[i].relation
           next == CASE relation.kind = "Table" ->
                          extract_table_names_from_joins(
                            add_valid_table_name(self, relation.name), from[i].joins)
                     [] relation.kind = "Derived" ->
                          extract_table_names_from_query(self, relation.subquery)
                     [] OTHER -> self
       IN  FromEntriesFrom(next, from, i + 1)

\* extract_table_names_from_select: the loop over select.from, from the
\* i-th entry on.
FromEntriesFrom(self, from, i) ==
  IF i > Len(from) THEN self
  ELSE LET relation == from[i].relation
           next == CASE relation.kind = "Table" ->
                          extract_table_names_from_joins(
                            add_valid_table_name(self, relation.name), from[i].joins)
                     [] relation.kind = "Derived" ->
                          extract_table_names_from_joins(
                            extract_table_names_from_query(self, relation.subquery),
                            from[i].joins)
                     [] OTHER -> self
       IN  FromEntriesFrom(next, from, i + 1)

\* match &select.selection
SelectionOf(self, selection) ==
  IF selection = None THEN self
  ELSE LET e == selection[1]
       IN  CASE e.kind \in {"Exists", "InSubquery"} ->
                  extract_table_names_from_query(self, e.subquery)
             [] e.kind = "BinaryOp" ->
                  extract_table_names_from_expr(
                    extract_table_names_from_expr(self, e.right), e.left)
             [] OTHER -> self

\* match &select.having
HavingOf(self, having) ==
  IF having = None THEN self
  ELSE LET e == having[1]
       IN  IF e.kind = "BinaryOp"
             THEN extract_table_names_from_expr(
                    extract_table_names_from_expr(self, e.right), e.left)
             ELSE self

extract_table_names_from_select(self, select) ==
  HavingOf(SelectionOf(FromEntriesFrom(self, select.from, 1), select.selection),
           select.having)

extract_table_names_from_set_option(self, node) ==
  CASE node.kind = "SetOperation" ->
         extract_table_names_from_set_option(
           extract_table_names_from_set_option(self, node.left), node.right)
    [] node.kind = "Select" -> extract_table_names_from_select(self, node.select)
    [] OTHER -> self

\* match &*query.body
QueryBodyOf(self, body) ==
  CASE body.kind = "Select" -> extract_table_names_from_select(self, body.select)
    [] body.kind = "Query" -> extract_table_names_from_query(self, body.query)
    [] body.kind = "Insert" -> handle_statment(self, body.stmt)
    [] body.kind = "SetOperation" ->
         extract_table_names_from_set_option(
           extract_table_names_from_set_option(self, body.left), body.right)
    [] OTHER -> self

extract_table_names_from_query(self, query) ==
  QueryBodyOf(IF query.with # <<>> THEN extract_cte_names(self, query.with) ELSE self,
              query.body)

\* handle_statment_query: the loop over the joins of a plain-table entry.
StatementJoinsFrom(self, joins, i) ==
  IF i > Len(joins) THEN self
  ELSE LET relation == joins[i].relation
           next == CASE relation.kind = "Table" ->
                          add_valid_table_name(self, relation.name)
                     [] relation.kind = "Derived" ->
                          extract_table_names_from_query(self, relation.subquery)
                     [] OTHER -> self
       IN  StatementJoinsFrom(next, joins, i + 1)

\* handle_statment_query: the loop over select.from.
StatementEntriesFrom(self, from, i) ==
  IF i > Len(from) THEN self
  ELSE LET next == IF from[i].relation.kind = "Table"
                     THEN StatementJoinsFrom(
                            add_valid_table_name(self, from[i].relation.name),
                            from[i].joins, 1)
                     ELSE self
       IN  StatementEntriesFrom(next, from, i + 1)

handle_statment_query(self, query) ==
  IF query.body.kind = "Select"
    THEN StatementEntriesFrom(self, query.body.select.from, 1)
    ELSE self

\* handle_statment recording the table a write statement writes as well.
handle_statment_recording_target(self, stmt) ==
  CASE stmt.kind = "CreateTable" /\ stmt.query # None ->
         handle_statment_query(add_valid_table_name(self, stmt.name), stmt.query[1])
    [] stmt.kind = "CreateTable" -> add_valid_table_name(self, stmt.name)
    [] stmt.kind = "Insert" /\ stmt.source # None ->
         handle_statment_query(add_valid_table_name(self, stmt.table_name), stmt.source[1])
    [] stmt.kind = "Query" -> extract_table_names_from_query(self, stmt.query)
    [] stmt.kind = "CreateView" ->
         extract_table_names_from_query(add_valid_table_name(self, stmt.name), stmt.query)
    [] stmt.kind = "Directory" -> extract_table_names_from_query(self, stmt.source)
    [] OTHER -> self

handle_statment(self, stmt) ==
  CASE stmt.kind = "CreateTable" /\ stmt.query # None ->
         handle_statment_query(self, stmt.query[1])
    [] stmt.kind = "Insert" /\ stmt.source # None ->
         handle_statment_query(self, stmt.source[1])
    [] stmt.kind = "Query" -> extract_table_names_from_query(self, stmt.query)
    [] stmt.kind = "CreateView" -> extract_table_names_from_query(self, stmt.query)
    [] stmt.kind = "Directory" -> extract_table_names_from_query(self, stmt.source)
    [] OTHER -> self

\* handle_query: the statements of the text are handled in turn; a parser
\* error returns before anything is handled.
RECURSIVE StatementsFrom(_, _, _)
StatementsFrom(self, ast, i) ==
  IF i > Len(ast) THEN self
  ELSE StatementsFrom(handle_statment(self, ast[i]), ast, i + 1)

handle_query(self, query) ==
  Bind(parse_sql(query),
       LAMBDA r : IF r.ok THEN [ok |-> TRUE, self |-> StatementsFrom(self, r.ast, 1)]
                  ELSE [ok |-> FALSE, self |-> self])

\* handle_use_database: split_whitespace and the test on the number of parts.
split_whitespace(query) ==
  SelectSeq(SplitOn([i \in DOMAIN query |->
                       IF query[i] \in Blank THEN " " ELSE query[i]], " "),
            LAMBDA p : p # <<>>)

\* handle_use_database starting the list of names afresh.
handle_use_database_resetting(self, query) ==
  LET parts == split_whitespace(query)
  IN  IF Len(parts) = 2
        THEN [self EXCEPT !.current_database = Concat(parts[2]),
                          !.all_table_names = <<>>]
        ELSE self

\* handle_use_database taking the first token for the database.
handle_use_database_first_token(self, query) ==
  LET parts == split_whitespace(query)
  IN  IF Len(parts) = 2
        THEN [self EXCEPT !.current_database = Concat(parts[1])]
        ELSE self

handle_use_database(self, query) ==
  LET parts == split_whitespace(query)
  IN  IF Len(parts) = 2
        THEN [self EXCEPT !.current_database = Concat(parts[2])]
        ELSE self

\* The test looking at the first word only, whatever follows it.
starts_with_word(query, word) == query # <<>> /\ query[1] = word

starts_with(query, word) ==
  Len(query) >= 2 /\ query[1] = word /\ query[2] = " "

\* The fold of parse: table_names drained into all_table_names through the
\* filter on cte_names, then cte_names cleared.
FoldFilter(self) ==
  SelectSeq(self.table_names, LAMBDA name : name \notin self.cte_names)

\* The fold keeping one entry for each name.
Fold_deduplicating(self) ==
  [self EXCEPT !.all_table_names =
                 @ \o SelectSeq([i \in DOMAIN FoldFilter(self) |->
                                   IF \E j \in 1..(i - 1) : FoldFilter(self)[j] = FoldFilter(self)[i]
                                     THEN "" ELSE FoldFilter(self)[i]],
                                LAMBDA name : name # ""),
               !.table_names = <<>>,
               !.cte_names = {}]

\* The fold putting the names of the statement in front.
Fold_prepending(self) ==
  [self EXCEPT !.all_table_names = FoldFilter(self) \o @,
               !.table_names = <<>>,
               !.cte_names = {}]

\* The fold leaving cte_names as the walk left it.
Fold_keeping_aliases(self) ==
  [self EXCEPT !.all_table_names = @ \o FoldFilter(self),
               !.table_names = <<>>]

Fold(self) ==
  [self EXCEPT !.all_table_names = @ \o FoldFilter(self),
               !.table_names = <<>>,
               !.cte_names = {}]

\* The turn going on to the next piece after an error of the SQL parser.
CleanStep_continuing(self, query) ==
  IF query = <<>> \/ starts_with(query, "set") THEN [ok |-> TRUE, self |-> self]
  ELSE IF starts_with(query, "use")
    THEN [ok |-> TRUE, self |-> handle_use_database(self, query)]
  ELSE Bind(handle_query(self, query),
            LAMBDA r : [ok |-> TRUE, self |-> Fold(r.self)])

\* One turn of the loop of parse on one piece of the input: the session
\* after it, and whether the loop goes on (ok) or parse returns the error.
CleanStep(self, query) ==
  IF query = <<>> \/ starts_with(query, "set") THEN [ok |-> TRUE, self |-> self]
  ELSE IF starts_with(query, "use")
    THEN [ok |-> TRUE, self |-> handle_use_database(self, query)]
  ELSE Bind(handle_query(self, query),
            LAMBDA r : IF r.ok THEN [ok |-> TRUE, self |-> Fold(r.self)] ELSE r)

ParseStep(self, piece) == CleanStep([self EXCEPT !.resolved = <<>>], Clean(piece))

\* parse: the loop over queries.split(';') from the i-th piece on, and the
\* result of the call.
RECURSIVE ParseLoop(_, _, _)
ParseLoop(self, pieces, i) ==
  IF i > Len(pieces) THEN [ok |-> TRUE, self |-> self]
  ELSE Bind(ParseStep(self, pieces[i]),
            LAMBDA r : IF r.ok THEN ParseLoop(r.self, pieces, i + 1) ELSE r)

parse(self, queries) == ParseLoop(self, SplitOn(queries, ";"), 1)

\* HiveSqlParser::new
New ==
  [current_database |-> "default",
   all_table_names |-> <<>>,
   table_names |-> <<>>,
   cte_names |-> {},
   resolved |-> <<>>]

get_table_names(self) == self.all_table_names

(***************************************************************************)
(* The host command gen_all_source_table of src-tauri/src/main.rs.         *)
(* A Base64 text is a sequence of units; a unit stands for the characters  *)
(* that encode one chunk, Bad64 for a character outside the alphabet, and  *)
(* the unit of BadUtf8 for bytes that are no UTF-8 text.                   *)
(***************************************************************************)
Bad64 == <<"bad", "!">>

BadUtf8 == "\\xff"

Encode(text) == [i \in DOMAIN text |-> <<"b64", text[i]>>]

\* general_purpose::STANDARD.decode
Base64Decode(content) ==
  IF \E i \in DOMAIN content : content[i] = Bad64
    THEN [ok |-> FALSE, bytes |-> <<>>]
    ELSE [ok |-> TRUE, bytes |-> [i \in DOMAIN content |-> content[i][2]]]

\* String::from_utf8
FromUtf8(bytes) ==
  IF \E i \in DOMAIN bytes : bytes[i] = BadUtf8
    THEN [ok |-> FALSE, string |-> <<>>]
    ELSE [ok |-> TRUE, string |-> bytes]

\* The command reading the file content first and the input only without one.
HostQuery_preferring_file(input, file_content) ==
  IF file_content # None
    THEN Bind(Base64Decode(file_content[1]), LAMBDA d :
           IF ~d.ok
             THEN [ok |-> FALSE, query |-> <<>>,
                   message |-> "Failed to decode Base64 content"]
             ELSE Bind(FromUtf8(d.bytes), LAMBDA u :
                    IF ~u.ok
                      THEN [ok |-> FALSE, query |-> <<>>, message |-> "Failed to convert: "]
                      ELSE [ok |-> TRUE, query |-> u.string, message |-> ""]))
  ELSE IF input # <<>> THEN [ok |-> TRUE, query |-> input, message |-> ""]
  ELSE [ok |-> FALSE, query |-> <<>>, message |-> "No input provided"]

\* The query the command parses, or the message it returns at once.
HostQuery(input, file_content) ==
  IF input # <<>> THEN [ok |-> TRUE, query |-> input, message |-> ""]
  ELSE IF file_content # None
    THEN Bind(Base64Decode(file_content[1]), LAMBDA d :
           IF ~d.ok
             THEN [ok |-> FALSE, query |-> <<>>,
                   message |-> "Failed to decode Base64 content"]
             ELSE Bind(FromUtf8(d.bytes), LAMBDA u :
                    IF ~u.ok
                      THEN [ok |-> FALSE, query |-> <<>>, message |-> "Failed to convert: "]
                      ELSE [ok |-> TRUE, query |-> u.string, message |-> ""]))
  ELSE [ok |-> FALSE, query |-> <<>>, message |-> "No input provided"]

\* The command returning the names whatever parse returned.
HostReturn_ignoring_error(self, ok) ==
  [kind |-> "tables", text |-> JoinWith([i \in DOMAIN get_table_names(self) |->
                                           <<get_table_names(self)[i]>>], "\n")]

\* What the command returns once parse has returned: the names joined by
\* line feeds, or the description of the error.
HostReturn(self, ok) ==
  IF ok THEN [kind |-> "tables", text |-> JoinWith([i \in DOMAIN get_table_names(self) |->
                                                     <<get_table_names(self)[i]>>], "\n")]
  ELSE [kind |-> "error", text |-> <<"error: ", "Some(ParserError)">>]

(***************************************************************************)
(* The inputs.  Sp writes a text from its words: one blank between two     *)
(* chunks, none next to a period.                                          *)
(***************************************************************************)
RECURSIVE Sp(_)
Sp(s) ==
  IF Len(s) < 2 THEN s
  ELSE IF s[1] = "." \/ s[2] = "." THEN <<s[1]>> \o Sp(Tail(s))
  ELSE <<s[1], " ">> \o Sp(Tail(s))

Semi(a, b) == a \o <<";", " ">> \o b

SelT1 == Sp(<<"select", "*", "from", "t1">>)

SelDbT1 == Sp(<<"select", "*", "from", "db1", ".", "t1">>)

SelTwice == Sp(<<"select", "*", "from", "t1", "join", "t1">>)

SelBoth == Sp(<<"select", "*", "from", "t1", "join", "db2", ".", "t1">>)

SelC == Sp(<<"select", "*", "from", "c">>)

WithC ==
  Sp(<<"with", "c", "as", "(", "select", "*", "from", "t2", ")",
       "select", "*", "from", "c">>)

CtasWithC == Sp(<<"create", "table", "t1", "as">>) \o <<" ">> \o WithC

InsertSel == Sp(<<"insert", "into", "t1", "select", "*", "from", "t2">>)

UseDb1 == Sp(<<"use", "db1">>)

UseUpper == Sp(<<"USE", "DB1">>)

UseDb2 == Sp(<<"use", "db2">>)

SetX == Sp(<<"set", "x", "=", "1">>)

BadSql == Sp(<<"select", "*", "from">>)

CreateT1 == Sp(<<"create", "table", "t1", "(", "id", "int", ")">>)

PartitionedBy == Sp(<<"partitioned", "by", "(", "ds", "string", ")">>)

ClusteredBy == Sp(<<"clustered", "by", "(", "id", ")", "into", "4", "buckets">>)

CtasPartitioned ==
  Sp(<<"create", "table", "t1">>) \o <<" ">> \o PartitionedBy \o <<" ">>
    \o Sp(<<"as", "select", "*", "from", "t2">>)

Statements ==
  {SelT1, SelDbT1, SelTwice, SelBoth, SelC, WithC, CtasWithC, InsertSel, UseDb1, UseUpper,
   UseDb2, SetX, BadSql, CreateT1, CtasPartitioned}

\* The statements that are paired with every other one in a batch of two.
Paired == {SelT1, SelC, WithC, CtasWithC, UseDb1, BadSql}

Batches ==
  Statements
    \cup {Semi(a, b) : a \in Paired, b \in Paired}
    \cup {Semi(UseDb1, Semi(SelT1, Semi(UseDb2, SelT1))),
          Semi(SelT1, Semi(BadSql, UseDb1)),
          Semi(UseDb1, Semi(BadSql, SelT1)),
          Semi(SelT1, <<"\n">>)}

\* A text with a comment in it, next to the same text without the comment.
Commented ==
  {[text |-> SelT1 \o <<" ", "--", " ", "from", " ", "t2">>, plain |-> SelT1],
   [text |-> Sp(<<"select", "*", "from", "/*", "select", "t2", "*/", "t1">>),
    plain |-> SelT1],
   [text |-> <<"--", " ", "note", "\n">> \o Semi(UseDb1, SelT1),
    plain |-> Semi(UseDb1, SelT1)],
   [text |-> Sp(<<"use", "/*", "note", "*/", "db1">>) \o <<";", " ">> \o SelT1,
    plain |-> Semi(UseDb1, SelT1)],
   [text |-> SelT1 \o <<" ", "--", " ", "note", ";", " ", "t2">>, plain |-> SelT1],
   [text |-> Sp(<<"select", "*", "/*", "a", ";", "b", "*/", "from", "t1">>),
    plain |-> SelT1]}

\* A statement with a trailing bucketing clause, next to the same statement
\* without the clause.
Bucketed ==
  {[text |-> CreateT1 \o <<" ">> \o ClusteredBy, plain |-> CreateT1],
   [text |-> CreateT1 \o <<" ">> \o PartitionedBy \o <<"\n">> \o ClusteredBy,
    plain |-> CreateT1 \o <<" ">> \o PartitionedBy],
   [text |-> InsertSel \o <<" ">> \o ClusteredBy, plain |-> InsertSel],
   [text |-> CtasPartitioned \o <<" ">> \o ClusteredBy, plain |-> CtasPartitioned]}

Inputs ==
  {[text |-> b, plain |-> b, kind |-> "plain"] : b \in Batches}
    \cup {[text |-> c.text, plain |-> c.plain, kind |-> "comment"] : c \in Commented}
    \cup {[text |-> c.text, plain |-> c.plain, kind |-> "bucket"] : c \in Bucketed}

NoInput == [text |-> <<>>, plain |-> <<>>, kind |-> "plain"]

\* The file contents the host command is given: none, a well encoded text,
\* a text that is no Base64, bytes that are no UTF-8.
FileContents ==
  {None, Some(Encode(SelT1)), Some(Encode(Semi(SelT1, BadSql))),
   Some(<<Bad64>>), Some(Encode(<<BadUtf8>>))}

\* The arguments of the host command: a text alone, a file content alone,
\* both.
HostArgs ==
  {[input |-> b, file_content |-> None] : b \in Batches}
    \cup {[input |-> <<>>, file_content |-> f] : f \in FileContents}
    \cup {[input |-> UseDb1, file_content |-> Some(Encode(SelT1))]}

\* No host command made the call.
NoArgs == [input |-> <<>>, file_content |-> None]

\* Statements that parse is given on a session that holds no names yet.
Sql ==
  [three_parts |-> Sp(<<"select", "*", "from", "cat", ".", "db1", ".", "t1">>),
   ctas |-> Sp(<<"create", "table", "t1", "as", "select", "*", "from", "t2">>),
   create_view |-> Sp(<<"create", "view", "t1", "as", "select", "*", "from", "t2">>),
   insert_overwrite |->
     Sp(<<"insert", "overwrite", "table", "db1", ".", "t1", "select", "*", "from", "t2">>),
   insert_values |-> Sp(<<"insert", "into", "t1", "values", "(", "1", ")">>),
   ctas_where |->
     Sp(<<"create", "table", "t1", "as", "select", "*", "from", "t2", "where", "exists",
          "(", "select", "*", "from", "t3", ")">>),
   ctas_derived |->
     Sp(<<"create", "table", "t1", "as", "select", "*", "from",
          "(", "select", "*", "from", "t2", ")", "a">>),
   insert_union |->
     Sp(<<"insert", "into", "t1", "select", "*", "from", "t2", "union",
          "select", "*", "from", "t3">>),
   union_chain |->
     Sp(<<"select", "*", "from", "t1", "union", "select", "*", "from", "t2",
          "union", "all", "select", "*", "from", "db1", ".", "t3">>),
   union_paren |->
     Sp(<<"select", "*", "from", "t1", "union", "(", "select", "*", "from", "t2", ")">>),
   union_nested |->
     Sp(<<"(", "select", "*", "from", "t1", ")", "union", "all",
          "(", "select", "*", "from", "t2", "union", "select", "*", "from", "t3", ")">>),
   with_chain |->
     Sp(<<"with", "a", "as", "(", "select", "*", "from", "t1", ")", ",",
          "b", "as", "(", "select", "*", "from", "a", "join", "t2", ")",
          "select", "*", "from", "b">>),
   with_self |->
     Sp(<<"with", "a", "as", "(", "select", "*", "from", "a", "join", "t1", ")",
          "select", "*", "from", "a">>),
   with_forward |->
     Sp(<<"with", "a", "as", "(", "select", "*", "from", "b", ")", ",",
          "b", "as", "(", "select", "*", "from", "t1", ")",
          "select", "*", "from", "a">>),
   where_not_exists |->
     Sp(<<"select", "*", "from", "t1", "where", "not", "exists",
          "(", "select", "*", "from", "t2", ")">>),
   where_in |->
     Sp(<<"select", "*", "from", "t1", "where", "x", "in",
          "(", "select", "*", "from", "db1", ".", "t2", ")">>),
   where_right |->
     Sp(<<"select", "*", "from", "t1", "where", "x", ">",
          "(", "select", "*", "from", "t2", ")">>),
   where_both |->
     Sp(<<"select", "*", "from", "t1", "where", "(", "select", "*", "from", "t2", ")",
          "=", "(", "select", "*", "from", "t3", ")">>),
   having_exists |->
     Sp(<<"select", "*", "from", "t1", "having", "exists",
          "(", "select", "*", "from", "t2", ")">>),
   having_in |->
     Sp(<<"select", "*", "from", "t1", "having", "x", "not", "in",
          "(", "select", "*", "from", "t2", ")">>),
   having_right |->
     Sp(<<"select", "*", "from", "t1", "where", "x", "=", "1", "having", "x", ">",
          "(", "select", "*", "from", "t2", ")">>),
   where_and_exists |->
     Sp(<<"select", "*", "from", "t1", "where", "x", "=", "1", "and", "exists",
          "(", "select", "*", "from", "t2", ")">>),
   where_or_in |->
     Sp(<<"select", "*", "from", "t1", "where", "x", "=",
          "(", "select", "*", "from", "t2", ")", "or", "y", "in",
          "(", "select", "*", "from", "t3", ")">>),
   having_and |->
     Sp(<<"select", "*", "from", "t1", "having", "x", ">", "1", "and", "y", "=",
          "(", "select", "*", "from", "t2", ")">>),
   from_derived |->
     Sp(<<"select", "*", "from", "(", "select", "*", "from", "t1", ")", "a",
          "join", "db1", ".", "t2", "b",
          "join", "(", "select", "*", "from", "t3", ")", "c">>),
   from_list |->
     Sp(<<"select", "*", "from", "t1", "join", "(", "select", "*", "from", "t2", ")", "b",
          ",", "t3", "join", "t4">>),
   from_nested |->
     Sp(<<"select", "*", "from", "t1", "join", "(", "t2", "join", "t3", ")", "join", "t4",
          ",", "(", "t2", "join", "t3", ")">>),
   with_dotted |->
     Sp(<<"with", "c", "as", "(", "select", "*", "from", "t1", ")", ",",
          "dbt", "as", "(", "select", "*", "from", "db", ".", "c", ")",
          "select", "*", "from", "db", ".", "t", "join", "dbt">>),
   with_nested |->
     Sp(<<"select", "*", "from", "c", "join", "(", "with", "c", "as",
          "(", "select", "*", "from", "t1", ")", "select", "*", "from", "c", ")", "x",
          "join", "c">>),
   upper_select |-> Sp(<<"SELECT", "*", "FROM", "T1", "join", "DB1", ".", "T1">>),
   upper_set |-> Sp(<<"SET", "x", "=", "1">>),
   literal |->
     Sp(<<"select", "*", "from", "t1", "where", "x", "=">>)
       \o <<" ", "'", "a", ";", "b", "'">>,
   comment |->
     Sp(<<"select", "*", "from", "t1">>) \o <<";", " ", "--", " ", "c", "\n", ";", " ", ";">>
       \o Sp(<<"select", "*", "from", "t2", "/*", "a">>) \o <<";", "b", "*/">>,
   set_junk |-> Sp(<<"set", ")", "select", "from", "(">>),
   set_newline |-> <<"set", "\n">> \o Sp(<<"x", "=", "1">>),
   set_newline_junk |-> <<"set", "\n">> \o Sp(<<"x", "1">>),
   with_predicate |->
     Sp(<<"select", "*", "from", "t1", "where", "(", "select", "x", "from", "c", ")",
          "=", "(", "with", "c", "as", "(", "select", "*", "from", "t2", ")",
          "select", "x", "from", "c", ")">>),
   use_three |-> Semi(Sp(<<"use", "db2", "db3">>), SelT1),
   use_newline |-> Semi(<<"use", "\n", "db2">>, SelT1),
   use_tab |-> Semi(<<"use", " ", "\t", "db2">>, SelT1),
   use_alone |-> Semi(<<"use">>, SelT1)]

WalkBatches ==
  {Sql[k] : k \in DOMAIN Sql}
    \cup {Semi(UseDb1, Sql[k]) : k \in DOMAIN Sql}
    \cup {UseDb1, UseDb2, SetX, BadSql, Semi(SelT1, UseDb1), Semi(SelT1, SetX),
          CreateT1, CreateT1 \o <<" ">> \o ClusteredBy, InsertSel, Semi(SelT1, CreateT1),
          CtasWithC, WithC, UseUpper, Semi(UseUpper, Sql.upper_select)}

WalkInputs == {[text |-> b, plain |-> b, kind |-> "plain"] : b \in WalkBatches}

\* parse is not called again on a session that already holds this many names.
MaxNames == 2

(***************************************************************************)
(* The state machine.                                                      *)
(***************************************************************************)
VARIABLES
  current_database,  \* the session: the four fields of HiveSqlParser
  all_table_names,
  table_names,
  cte_names,
  resolved,          \* the references handed to the resolver by the last turn
  given,             \* the input of the call in progress or of the last call
  args,              \* the arguments of the host command when it made the call
  entry,             \* the session when that call began
  idx,               \* the pieces of the input the loop has gone through
  pc,                \* "idle", or "loop" inside parse
  result,            \* what the last call of parse returned
  mode,              \* who called parse: "lib" a user of the library, "host"
  output             \* what the host command returned last

vars ==
  <<current_database, all_table_names, table_names, cte_names, resolved, given,
    args, entry, idx, pc, result, mode, output>>

Self ==
  [current_database |-> current_database,
   all_table_names |-> all_table_names,
   table_names |-> table_names,
   cte_names |-> cte_names,
   resolved |-> resolved]

Install(self) ==
  /\ current_database' = self.current_database
  /\ all_table_names' = self.all_table_names
  /\ table_names' = self.table_names
  /\ cte_names' = self.cte_names
  /\ resolved' = self.resolved

queries == given.text

\* The input handed to the loop in one piece.
Pieces_unsplit == <<queries>>

Pieces == SplitOn(queries, ";")

NoOutput == [kind |-> "none", text |-> <<>>]

Init ==
  /\ current_database = New.current_database
  /\ all_table_names = New.all_table_names
  /\ table_names = New.table_names
  /\ cte_names = New.cte_names
  /\ resolved = New.resolved
  /\ given = NoInput
  /\ args = NoArgs
  /\ entry = New
  /\ idx = 0
  /\ pc = "idle"
  /\ result = "none"
  /\ mode = "lib"
  /\ output = NoOutput

\* The piece the loop is at, cleaned, and its kind.
Piece == Pieces[idx + 1]

IsSkipped(query) == query = <<>> \/ starts_with(query, "set")

IsSwitch(query) == ~IsSkipped(query) /\ starts_with(query, "use")

\* A user of the library calls parse on the session.
ParseCall ==
  /\ pc = "idle"
  /\ Len(all_table_names) < MaxNames
  /\ \E in \in Inputs : given' = in
  /\ entry' = [Self EXCEPT !.resolved = <<>>]
  /\ idx' = 0
  /\ pc' = "loop"
  /\ result' = "none"
  /\ mode' = "lib"
  /\ output' = NoOutput
  /\ args' = NoArgs
  /\ UNCHANGED <<current_database, all_table_names, table_names, cte_names, resolved>>

\* gen_all_source_table up to its call of parse: a new session, then the
\* query is the input, or the decoded file content, or the command returns
\* a message.
HostCall ==
  /\ pc = "idle"
  /\ \E a \in HostArgs :
       Bind(HostQuery(a.input, a.file_content),
            LAMBDA q :
              /\ args' = a
              /\ given' = [text |-> q.query, plain |-> q.query, kind |-> "plain"]
              /\ pc' = IF q.ok THEN "loop" ELSE "idle"
              /\ output' = IF q.ok THEN NoOutput
                           ELSE [kind |-> "message", text |-> <<q.message>>])
  /\ Install(New)
  /\ entry' = New
  /\ idx' = 0
  /\ result' = "none"
  /\ mode' = "host"

\* A turn of the loop on an empty piece or on a configuration line.
StepSkip ==
  /\ pc = "loop" /\ idx < Len(Pieces)
  /\ IsSkipped(Clean(Piece))
  /\ Install(ParseStep(Self, Piece).self)
  /\ idx' = idx + 1
  /\ UNCHANGED <<given, args, entry, pc, result, mode, output>>

\* A turn of the loop on a piece that begins with "use ".
StepUse ==
  /\ pc = "loop" /\ idx < Len(Pieces)
  /\ IsSwitch(Clean(Piece))
  /\ Install(ParseStep(Self, Piece).self)
  /\ idx' = idx + 1
  /\ UNCHANGED <<given, args, entry, pc, result, mode, output>>

\* A turn of the loop on a piece the SQL parser accepts.
StepQuery ==
  /\ pc = "loop" /\ idx < Len(Pieces)
  /\ ~IsSkipped(Clean(Piece)) /\ ~IsSwitch(Clean(Piece))
  /\ Bind(ParseStep(Self, Piece), LAMBDA r : r.ok /\ Install(r.self))
  /\ idx' = idx + 1
  /\ UNCHANGED <<given, args, entry, pc, result, mode, output>>

\* A turn of the loop on a piece the SQL parser rejects: parse returns the
\* error, and the host command returns its description.
StepError ==
  /\ pc = "loop" /\ idx < Len(Pieces)
  /\ ~IsSkipped(Clean(Piece)) /\ ~IsSwitch(Clean(Piece))
  /\ Bind(ParseStep(Self, Piece),
          LAMBDA r : /\ ~r.ok
                     /\ Install(r.self)
                     /\ output' = IF mode = "host" THEN HostReturn(r.self, FALSE)
                                  ELSE output)
  /\ idx' = idx + 1
  /\ pc' = "idle"
  /\ result' = "err"
  /\ UNCHANGED <<given, args, entry, mode>>

\* The end of the loop going back to the first piece.
ParseReturn_starting_again ==
  /\ pc = "loop" /\ idx = Len(Pieces)
  /\ idx' = 0
  /\ UNCHANGED <<current_database, all_table_names, table_names, cte_names, resolved,
                 given, args, entry, pc, result, mode, output>>

\* The loop is over: parse returns Ok, and the host command returns the
\* names.
ParseReturn ==
  /\ pc = "loop" /\ idx = Len(Pieces)
  /\ pc' = "idle"
  /\ result' = "ok"
  /\ output' = IF mode = "host" THEN HostReturn(Self, TRUE) ELSE output
  /\ UNCHANGED <<current_database, all_table_names, table_names, cte_names, resolved,
                 given, args, entry, idx, mode>>

Next ==
  \/ ParseCall
  \/ HostCall
  \/ StepSkip
  \/ StepUse
  \/ StepQuery
  \/ StepError
  \/ ParseReturn

Spec == Init /\ [][Next]_vars

\* A user of the library calls parse on a session that holds no names yet.
ParseFirst ==
  /\ pc = "idle"
  /\ all_table_names = <<>>
  /\ \E in \in WalkInputs : given' = in
  /\ entry' = [Self EXCEPT !.resolved = <<>>]
  /\ idx' = 0
  /\ pc' = "loop"
  /\ result' = "none"
  /\ mode' = "lib"
  /\ output' = NoOutput
  /\ args' = NoArgs
  /\ UNCHANGED <<current_database, all_table_names, table_names, cte_names, resolved>>

WalkNext ==
  \/ ParseFirst
  \/ StepSkip
  \/ StepUse
  \/ StepQuery
  \/ StepError
  \/ ParseReturn

WalkSpec == Init /\ [][WalkNext]_vars

\* The number of pieces split(';') yields: one more than the separators.
PieceCount == Count(";", queries) + 1

\* A turn of the loop, whatever the piece: the loop goes to the next piece,
\* also on the piece whose error it returns.
Turn == pc = "loop" /\ idx < PieceCount /\ idx' = idx + 1

\* The loop has no piece left and parse returns Ok.
Return == pc = "loop" /\ idx = PieceCount /\ pc' = "idle"

\* parse runs on: while the loop has a piece left it makes a turn, and when
\* it has none parse returns.
RunSpec ==
  /\ Init
  /\ [][WalkNext]_vars
  /\ WF_idx(Turn)
  /\ WF_pc(Return)

TypeOK ==
  /\ pc \in {"idle", "loop"}
  /\ result \in {"none", "ok", "err"}
  /\ mode \in {"lib", "host"}
  /\ idx \in 0..Len(Pieces)

(***************************************************************************)
(* What the claims are stated with.                                        *)
(***************************************************************************)
\* The references the last turn of the loop recorded, in their order.
Recorded == SelectSeq(resolved, LAMBDA r : r.recorded)

\* The name a reference of one or two parts is to be recorded under while
\* the current database is d.
Qualified(d, name) ==
  IF Len(name) = 1 THEN d \o "." \o name[1] ELSE name[1] \o "." \o name[2]

\* The names the last turn added to all_table_names when it added n of them.
Newest(names, n) == SubSeq(names, Len(names) - n + 1, Len(names))

\* The piece is a statement the SQL parser is given and rejects.
Rejected(piece) ==
  /\ ~IsSkipped(Clean(piece))
  /\ ~IsSwitch(Clean(piece))
  /\ ~parse_sql(Clean(piece)).ok

\* The piece is a database switch of the form: use d.
IsUseD(piece) ==
  starts_with(Clean(piece), "use") /\ Len(split_whitespace(Clean(piece))) = 2

\* The aliases the WITH clauses of a statement introduce, read off its
\* tokens: a name after WITH or after a comma, followed by AS and "(".
WithAliases(t) ==
  {t[i][2] : i \in {k \in DOMAIN t :
                      /\ IsIdent(t, k)
                      /\ Kw(t, k - 1, "with") \/ Sym(t, k - 1, ",")
                      /\ Kw(t, k + 1, "as")
                      /\ Sym(t, k + 2, "(")}}

AliasesOf(piece) == WithAliases(Tokenize(Clean(piece)).toks)

\* The single-part names a statement refers to in a FROM or JOIN position.
PlainReferences(t) ==
  {t[i][2] : i \in {k \in DOMAIN t :
                      /\ IsIdent(t, k)
                      /\ Kw(t, k - 1, "from") \/ Kw(t, k - 1, "join")
                      /\ ~Sym(t, k + 1, ".")}}

ReferencesOf(piece) == PlainReferences(Tokenize(Clean(piece)).toks)

\* The session has seen no database switch: it was new when the call began
\* and no piece the loop has gone through is a switch.
Fresh ==
  /\ entry = New
  /\ \A k \in 1..idx : ~IsSwitch(Clean(Pieces[k]))

(***************************************************************************)
(* C1  Qualification.  Every reference the last turn resolved and recorded *)
(* stands in all_table_names as d.t when it has the single part t and the  *)
(* current database is d, and unchanged as db.t when it has the two parts  *)
(* db and t; on a session that has seen no switch d is "default".          *)
(***************************************************************************)
Qualification ==
  /\ Len(Recorded) <= Len(all_table_names)
  /\ \A i \in DOMAIN Recorded :
       Newest(all_table_names, Len(Recorded))[i]
         = Qualified(current_database, Recorded[i].name)
  /\ Fresh => current_database = "default"
  /\ Fresh => \A i \in DOMAIN Recorded :
                Len(Recorded[i].name) = 1 =>
                  Newest(all_table_names, Len(Recorded))[i]
                    = "default." \o Recorded[i].name[1]

\* After a switch to db1, select * from t1 join db2.t1 has recorded its
\* single-part reference and its two-part one.
QualificationWitness ==
  /\ current_database = "db1"
  /\ given.text = SelBoth
  /\ Len(Recorded) = 2
  /\ all_table_names = <<"db1.t1", "db2.t1">>

(***************************************************************************)
(* C2  CTE exclusion.  In a statement the parser accepts, no single-part   *)
(* reference to an alias that a WITH clause of the statement introduces    *)
(* adds an entry to all_table_names.                                       *)
(***************************************************************************)
CteExclusion ==
  idx >= 1 =>
    \A i \in DOMAIN resolved :
      (Len(resolved[i].name) = 1 /\ resolved[i].name[1] \in AliasesOf(Pieces[idx]))
        => /\ ~resolved[i].recorded
           /\ Qualified(current_database, resolved[i].name)
                \notin Range(Newest(all_table_names, Len(Recorded)))

(***************************************************************************)
(* C3  CTE scope is per statement.  When statement N declares the alias a  *)
(* and statement N+1 refers to a without declaring it, the reference in N  *)
(* is not recorded and the one in N+1 is recorded as current_database.a;   *)
(* no alias is left in cte_names at a statement boundary.                  *)
(***************************************************************************)
CteScope ==
  /\ cte_names = {}
  /\ (idx >= 1 /\ idx < Len(Pieces)) =>
       \A a \in (AliasesOf(Pieces[idx]) \cap ReferencesOf(Pieces[idx + 1]))
                  \ AliasesOf(Pieces[idx + 1]) :
         \A i \in DOMAIN resolved : resolved[i].name = <<a>> => ~resolved[i].recorded
  /\ (idx >= 2 /\ result # "err") =>
       \A a \in (AliasesOf(Pieces[idx - 1]) \cap ReferencesOf(Pieces[idx]))
                  \ AliasesOf(Pieces[idx]) :
         /\ \E i \in DOMAIN resolved : resolved[i].name = <<a>>
         /\ \A i \in DOMAIN resolved : resolved[i].name = <<a>> => resolved[i].recorded
         /\ (current_database \o "." \o a)
              \in Range(Newest(all_table_names, Len(Recorded)))

(***************************************************************************)
(* C4  Database-switch persistence.  A turn on the statement use d sets    *)
(* current_database to d and adds no entry to all_table_names; a turn on   *)
(* any other statement leaves current_database as it is; and every         *)
(* single-part reference a turn records is recorded under the database of  *)
(* the last switch before it.                                              *)
(***************************************************************************)
DatabaseSwitchPersistence ==
  [][(pc = "loop" /\ idx < Len(Pieces)) =>
       /\ IsUseD(Piece) =>
            /\ current_database' = Concat(split_whitespace(Clean(Piece))[2])
            /\ all_table_names' = all_table_names
       /\ ~IsUseD(Piece) => current_database' = current_database
       /\ \A i \in DOMAIN Recorded' :
            Len(Recorded'[i].name) = 1 =>
              Newest(all_table_names', Len(Recorded'))[i]
                = current_database \o "." \o Recorded'[i].name[1]]_vars

\* use db1; select * from t1; use db2; select * from t1 has returned.
DatabaseSwitchPersistenceWitness ==
  /\ given.text = Semi(UseDb1, Semi(SelT1, Semi(UseDb2, SelT1)))
  /\ pc = "idle"
  /\ result = "ok"
  /\ all_table_names = <<"db1.t1", "db2.t1">>
  /\ current_database = "db2"

FailFast ==
  /\ result = "err" =>
       /\ pc = "idle"
       /\ idx >= 1
       /\ Rejected(Pieces[idx])
       /\ \A j \in 1..(idx - 1) : ~Rejected(Pieces[j])
       /\ Bind(ParseLoop(entry, Take(Pieces, idx - 1), 1),
               LAMBDA before : /\ before.ok
                               /\ all_table_names = before.self.all_table_names
                               /\ current_database = before.self.current_database)
  /\ result = "ok" => \A j \in DOMAIN Pieces : ~Rejected(Pieces[j])

\* select * from t1; select * from; use db1 has returned its error.
FailFastWitness ==
  /\ given.text = Semi(SelT1, Semi(BadSql, UseDb1))
  /\ result = "err"
  /\ idx = 2
  /\ all_table_names = entry.all_table_names \o <<entry.current_database \o ".t1">>
  /\ current_database = entry.current_database

(***************************************************************************)
(* C7  Comment stripping is transparent.  A batch with a comment in it     *)
(* gives the outcome and the names that the batch without the comment      *)
(* gives, whatever the text of the comment.                                *)
(***************************************************************************)
CommentTransparent ==
  (given.kind = "comment" /\ pc = "idle" /\ result # "none") =>
    Bind(parse(entry, given.plain),
         LAMBDA plain : /\ (result = "ok") = plain.ok
                        /\ all_table_names = plain.self.all_table_names
                        /\ current_database = plain.self.current_database)

(***************************************************************************)
(* C8  Bucketing-clause stripping is transparent.  A statement with a      *)
(* trailing bucketing clause is accepted and gives the names that the      *)
(* statement without the clause gives.                                     *)
(***************************************************************************)
BucketingTransparent ==
  (given.kind = "bucket" /\ pc = "idle" /\ result # "none") =>
    Bind(parse(entry, given.plain),
         LAMBDA plain : /\ result = "ok"
                        /\ plain.ok
                        /\ all_table_names = plain.self.all_table_names)

(***************************************************************************)
(* C9  No deduplication.  A turn of the loop adds to all_table_names one   *)
(* entry for each reference to a table that is no CTE, so that a name      *)
(* referred to k times in the statement gains k entries, whatever          *)
(* all_table_names held before.                                            *)
(***************************************************************************)
NoDeduplication ==
  [][(pc = "loop" /\ idx' = idx + 1) =>
       /\ Len(all_table_names') = Len(all_table_names) + Len(Recorded')
       /\ \A n \in Range(all_table_names') \cup
                     {Qualified(current_database, Recorded'[i].name) :
                        i \in DOMAIN Recorded'} :
            Count(n, all_table_names')
              = Count(n, all_table_names)
                  + Cardinality({i \in DOMAIN Recorded' :
                                   Qualified(current_database, Recorded'[i].name) = n})]_vars

\* select * from t1 join t1 has given default.t1 twice.
NoDeduplicationWitness ==
  /\ given.text = SelTwice
  /\ Len(Recorded) = 2
  /\ Count("default.t1", all_table_names) = 2

(***************************************************************************)
(* C10  all_table_names is append-only and statement-ordered.  On one      *)
(* session every step leaves the old value as a prefix of the new one,     *)
(* and a turn of the loop adds, after the names of the statements before   *)
(* it, the names its own statement gives.                                  *)
(***************************************************************************)
AppendOnly ==
  [][~(pc = "idle" /\ mode' = "host") =>
       /\ IsPrefix(all_table_names, all_table_names')
       /\ (pc = "loop" /\ idx' = idx + 1) =>
            all_table_names'
              = all_table_names
                  \o ParseStep([Self EXCEPT !.all_table_names = <<>>], Piece)
                       .self.all_table_names]_vars

\* Two statements of one batch have each added their name, in their order.
AppendOnlyWitness ==
  /\ given.text = Semi(UseDb1, Semi(SelT1, Semi(UseDb2, SelT1)))
  /\ idx = 4
  /\ all_table_names = <<"db1.t1", "db2.t1">>
  /\ pc = "loop"

\* The words of the statements parse is given, and the database of a new
\* session: no identifier has a period in it.
Identifiers ==
  {"default"}
    \cup {Lower(c) : c \in {w \in UNION {Range(b) : b \in WalkBatches} : IsWord(w)}}

\* The name has the form database.table.
IsDatabaseTable(n) == \E d \in Identifiers, t \in Identifiers : n = d \o "." \o t

(***************************************************************************)
(* C11  Qualified-name invariant.  In every reachable state every element  *)
(* of all_table_names has the form database.table, whether the reference   *)
(* it comes from has one, two or more parts.                               *)
(***************************************************************************)
QualifiedNames == \A i \in DOMAIN all_table_names : IsDatabaseTable(all_table_names[i])

\* The cleaned text begins with the configuration-set keyword.
BeginsWithSet(query) == query # <<>> /\ query[1] = "set"

(***************************************************************************)
(* C12  Configuration statements are inert.  A turn of the loop on a       *)
(* statement whose cleaned text begins with the keyword set takes the      *)
(* branch that skips the statement, does not make parse return an error,   *)
(* and leaves current_database, all_table_names, table_names and           *)
(* cte_names as they are, whatever follows the keyword.                    *)
(***************************************************************************)
ConfigurationInert ==
  [][(pc = "loop" /\ idx < Len(Pieces) /\ BeginsWithSet(Clean(Piece))) =>
       /\ IsSkipped(Clean(Piece))
       /\ pc' = "loop"
       /\ result' # "err"
       /\ UNCHANGED <<current_database, all_table_names, table_names, cte_names>>]_vars

\* The cleaned text begins with the database-switch keyword.
BeginsWithUse(query) == query # <<>> /\ query[1] = "use"

(***************************************************************************)
(* C13  A database-switch statement changes only current_database.  A      *)
(* turn of the loop on a statement that begins with the keyword use        *)
(* leaves all_table_names, table_names and cte_names as they are.          *)
(***************************************************************************)
SwitchChangesOnlyDatabase ==
  [][(pc = "loop" /\ idx < Len(Pieces) /\ BeginsWithUse(Clean(Piece))) =>
       UNCHANGED <<all_table_names, table_names, cte_names>>]_vars

\* select * from t1; use db1: the switch has been made and the name of the
\* query is still there.
SwitchChangesOnlyDatabaseWitness ==
  /\ given.text = Semi(SelT1, UseDb1)
  /\ idx = 2
  /\ current_database = "db1"
  /\ all_table_names = entry.all_table_names \o <<entry.current_database \o ".t1">>
  /\ entry.current_database # "db1"

\* The statement is a CREATE TABLE, a CREATE VIEW or an INSERT into a table.
IsWrite(t) ==
  \/ Kw(t, 1, "create") /\ (Kw(t, 2, "table") \/ Kw(t, 2, "view"))
  \/ Kw(t, 1, "insert") /\ (Kw(t, 2, "into") \/ Kw(t, 2, "overwrite"))
       /\ ~Kw(t, 3, "directory")

\* The parts of the name of the table or view the statement writes.
TargetOf(t) == ParseObjectName(t, IF Kw(t, 3, "table") THEN 4 ELSE 3).val

\* The statement has a query attached.
HasQuery(t) == \E k \in DOMAIN t : Kw(t, k, "select") \/ Kw(t, k, "with")

(***************************************************************************)
(* C14  Only read sources are recorded.  A turn of the loop on a CREATE    *)
(* TABLE, CREATE TABLE AS, CREATE VIEW or INSERT statement that does not   *)
(* read the table it writes adds no entry for that table, and on a         *)
(* statement with no query attached it adds nothing and parse goes on.     *)
(***************************************************************************)
OnlyReadSources ==
  [][(pc = "loop" /\ idx < Len(Pieces) /\ IsWrite(Tokenize(Clean(Piece)).toks)) =>
       /\ TargetOf(Tokenize(Clean(Piece)).toks) \notin
            {<<r>> : r \in ReferencesOf(Piece)}
            => /\ Qualified(current_database, TargetOf(Tokenize(Clean(Piece)).toks))
                    \notin Range(Drop(all_table_names', Len(all_table_names)))
               /\ \A i \in DOMAIN resolved' :
                    resolved'[i].name # TargetOf(Tokenize(Clean(Piece)).toks)
       /\ ~HasQuery(Tokenize(Clean(Piece)).toks)
            => /\ all_table_names' = all_table_names
               /\ pc' = "loop"
               /\ result' # "err"]_vars

\* insert overwrite table db1.t1 select * from t2 has recorded t2 alone.
OnlyReadSourcesWitness ==
  /\ given.text = Sql.insert_overwrite
  /\ idx = 1
  /\ all_table_names = <<"default.t2">>

\* The texts a file content of the host command encodes.
Decodable == {SelT1, Semi(SelT1, BadSql)}

\* The host command returned this message without calling parse: the
\* session is the new one, the loop made no turn, parse returned nothing,
\* and the message is not the description of a parser error.
ReturnedMessage(message) ==
  /\ output = [kind |-> "message", text |-> <<message>>]
  /\ output.text # HostReturn(Self, FALSE).text
  /\ pc = "idle"
  /\ idx = 0
  /\ result = "none"
  /\ Self = New

(***************************************************************************)
(* C15  Host boundary.  A call of gen_all_source_table works on a new      *)
(* session; it parses the input when the input is not empty and otherwise  *)
(* the text its file content encodes; a file content that is no Base64, or *)
(* that encodes no UTF-8 text, or no input and no file content, make it    *)
(* return a message that differs from the description of a parser error,   *)
(* without parse being called.                                             *)
(***************************************************************************)
HostBoundary ==
  mode = "host" =>
    /\ entry = New
    /\ args.input # <<>> => given.text = args.input /\ output.kind # "message"
    /\ \A text \in Decodable :
         args.input = <<>> /\ args.file_content = Some(Encode(text))
           => given.text = text /\ output.kind # "message"
    /\ args.input = <<>> /\ args.file_content = Some(<<Bad64>>)
         => ReturnedMessage("Failed to decode Base64 content")
    /\ args.input = <<>> /\ args.file_content = Some(Encode(<<BadUtf8>>))
         => ReturnedMessage("Failed to convert: ")
    /\ args.input = <<>> /\ args.file_content = None
         => ReturnedMessage("No input provided")

\* The command was given an input and a file content, and parsed the input.
HostBoundaryWitness ==
  /\ mode = "host"
  /\ args = [input |-> UseDb1, file_content |-> Some(Encode(SelT1))]
  /\ given.text = UseDb1
  /\ pc = "idle"
  /\ result = "ok"
  /\ current_database = "db1"
  /\ output = [kind |-> "tables", text |-> <<>>]

\* The statement is CREATE TABLE ... AS Q or INSERT ... Q with a query Q.
IsWriteOfQuery(t) ==
  /\ IsWrite(t)
  /\ ~Kw(t, 2, "view")
  /\ HasQuery(t)

\* The text of the query Q of such a statement: the statement from its
\* first SELECT or WITH on.
SourceQuery(query) ==
  Drop(query, Min({k \in DOMAIN query : query[k] \in {"select", "with"}}) - 1)

(***************************************************************************)
(* C16  Write statements get the full Query Walker.  A turn of the loop on *)
(* CREATE TABLE ... AS Q or on INSERT ... Q leaves the names that the      *)
(* same turn leaves on the statement Q alone, in the same session.         *)
(***************************************************************************)
WriteWalksAsStandalone ==
  [][(pc = "loop" /\ idx < Len(Pieces) /\ IsWriteOfQuery(Tokenize(Clean(Piece)).toks)) =>
       /\ pc' = "loop"
       /\ ParseStep(Self, SourceQuery(Clean(Piece))).ok
       /\ all_table_names' =
            ParseStep(Self, SourceQuery(Clean(Piece))).self.all_table_names]_vars

\* The statement is a query whose body is a set operation: it begins with
\* SELECT or with "(" and holds a UNION.
IsSetOperation(t) ==
  /\ Kw(t, 1, "select") \/ Sym(t, 1, "(")
  /\ \E k \in DOMAIN t : Kw(t, k, "union")

\* The two-part names a statement refers to in a FROM or JOIN position.
DottedReferences(t) ==
  {<<t[i][2], t[i + 2][2]>> : i \in {k \in DOMAIN t :
                                       /\ IsIdent(t, k)
                                       /\ Kw(t, k - 1, "from") \/ Kw(t, k - 1, "join")
                                       /\ Sym(t, k + 1, ".")
                                       /\ IsIdent(t, k + 2)
                                       /\ ~Sym(t, k + 3, ".")}}

\* The tables a statement refers to: its references but for the aliases of
\* its WITH clauses.
TablesOf(piece) ==
  {<<r>> : r \in ReferencesOf(piece) \ AliasesOf(piece)}
    \cup DottedReferences(Tokenize(Clean(piece)).toks)

(***************************************************************************)
(* C17  Set operations are fully walked.  A turn of the loop on a query    *)
(* whose body is a set operation records every table that any operand     *)
(* refers to, the operand being a select, a query in parentheses or a set  *)
(* operation.                                                              *)
(***************************************************************************)
SetOperationsWalked ==
  [][(pc = "loop" /\ idx < Len(Pieces) /\ IsSetOperation(Tokenize(Clean(Piece)).toks)) =>
       /\ pc' = "loop"
       /\ \A name \in TablesOf(Piece) :
            Qualified(current_database, name)
              \in Range(Drop(all_table_names', Len(all_table_names)))]_vars

\* The positions of a statement at which a WITH clause introduces an alias.
WithPositions(t) ==
  {k \in DOMAIN t : /\ IsIdent(t, k)
                    /\ Kw(t, k - 1, "with") \/ Sym(t, k - 1, ",")
                    /\ Kw(t, k + 1, "as")
                    /\ Sym(t, k + 2, "(")}

\* The positions of the single-part references inside parentheses: in a
\* statement whose FROM clauses hold tables only, those of its CTE bodies.
BodyPositions(t) ==
  {k \in DOMAIN t :
     /\ IsIdent(t, k)
     /\ Kw(t, k - 1, "from") \/ Kw(t, k - 1, "join")
     /\ ~Sym(t, k + 1, ".")
     /\ Cardinality({j \in 1..k : Sym(t, j, "(")})
          > Cardinality({j \in 1..k : Sym(t, j, ")")})}

\* The references of the CTE bodies to the alias of their own definition or
\* of a definition before it, and their other references.
BackwardReferences(t) ==
  {t[k][2] : k \in {p \in BodyPositions(t) :
                      \E j \in WithPositions(t) : j < p /\ t[j][2] = t[p][2]}}

BodyTables(t) ==
  {t[k][2] : k \in {p \in BodyPositions(t) :
                      \A j \in WithPositions(t) : j < p => t[j][2] # t[p][2]}}

(***************************************************************************)
(* C18  WITH-clause ordering.  A turn of the loop on a statement with a    *)
(* WITH clause, which the parser accepts, records no reference of a CTE    *)
(* body to its own alias or to the alias of an earlier definition of the   *)
(* clause, and records every table a CTE body refers to.                   *)
(***************************************************************************)
WithClauseOrdering ==
  [][(pc = "loop" /\ idx < Len(Pieces) /\ ~Rejected(Piece)
        /\ WithPositions(Tokenize(Clean(Piece)).toks) # {}) =>
       /\ \A a \in BackwardReferences(Tokenize(Clean(Piece)).toks) :
            /\ \A i \in DOMAIN resolved' :
                 resolved'[i].name = <<a>> => ~resolved'[i].recorded
            /\ (current_database \o "." \o a)
                 \notin Range(Drop(all_table_names', Len(all_table_names)))
       /\ \A r \in BodyTables(Tokenize(Clean(Piece)).toks) :
            (current_database \o "." \o r)
              \in Range(Drop(all_table_names', Len(all_table_names)))]_vars

\* The query of a statement, if it has one.
QueryOfStatement(stmt) ==
  CASE stmt.kind = "Query" -> <<stmt.query>>
    [] stmt.kind = "CreateTable" -> stmt.query
    [] stmt.kind = "Insert" -> stmt.source
    [] stmt.kind = "CreateView" -> <<stmt.query>>
    [] stmt.kind = "Directory" -> <<stmt.source>>
    [] OTHER -> <<>>

\* The select that is the body of the query of the statement of a piece.
SelectsOf(piece) ==
  {q.body.select :
     q \in {r \in UNION {Range(QueryOfStatement(stmt)) :
                           stmt \in Range(parse_sql(Clean(piece)).ast)} :
              r.body.kind = "Select"}}

\* The predicate is EXISTS (subquery) or IN (subquery), negated or not, or
\* a binary expression between subqueries, names and values with a subquery
\* on one side at least.
IsShallow(predicate) ==
  \E e \in Range(predicate) :
    \/ e.kind \in {"Exists", "InSubquery"}
    \/ /\ e.kind = "BinaryOp"
       /\ {e.left.kind, e.right.kind} \subseteq {"Subquery", "Identifier", "Value"}
       /\ "Subquery" \in {e.left.kind, e.right.kind}

(***************************************************************************)
(* C19  WHERE subqueries.  A turn of the loop on a statement whose select  *)
(* has a WHERE predicate of the form EXISTS (subquery), IN (subquery),     *)
(* negated or not, or a binary expression with a subquery as an operand,   *)
(* records the tables of those subqueries and those of the FROM clause.    *)
(***************************************************************************)
WhereSubqueriesWalked ==
  [][(pc = "loop" /\ idx < Len(Pieces)
        /\ \E s \in SelectsOf(Piece) : IsShallow(s.selection)) =>
       \A name \in TablesOf(Piece) :
         Qualified(current_database, name)
           \in Range(Drop(all_table_names', Len(all_table_names)))]_vars

(***************************************************************************)
(* C20  HAVING is inspected by the rule of WHERE.  A turn of the loop on a *)
(* statement whose select has a HAVING predicate of the form EXISTS        *)
(* (subquery), IN (subquery), or a binary expression with a subquery as an *)
(* operand, records the tables of those subqueries.                        *)
(***************************************************************************)
HavingSubqueriesWalked ==
  [][(pc = "loop" /\ idx < Len(Pieces)
        /\ \E s \in SelectsOf(Piece) : IsShallow(s.having)) =>
       \A name \in TablesOf(Piece) :
         Qualified(current_database, name)
           \in Range(Drop(all_table_names', Len(all_table_names)))]_vars

\* The subqueries inside an expression, at any depth.
RECURSIVE SubqueriesIn(_)
SubqueriesIn(e) ==
  CASE e.kind \in {"Subquery", "Exists", "InSubquery"} -> {e.subquery}
    [] e.kind = "BinaryOp" -> SubqueriesIn(e.left) \cup SubqueriesIn(e.right)
    [] e.kind = "Nested" -> SubqueriesIn(e.expr)
    [] OTHER -> {}

\* The names of the tables of a FROM clause, joined tables included.
FromNames(from) ==
  {from[i].relation.name : i \in {k \in DOMAIN from : from[k].relation.kind = "Table"}}
    \cup UNION {{from[i].joins[j].relation.name :
                   j \in {k \in DOMAIN from[i].joins :
                            from[i].joins[k].relation.kind = "Table"}} :
                i \in DOMAIN from}

\* The names of the tables of the FROM clause of a query that is a select.
QueryNames(q) == IF q.body.kind = "Select" THEN FromNames(q.body.select.from) ELSE {}

\* The operands of a predicate that is a binary expression.
OperandsOf(predicate) ==
  UNION {{e.left, e.right} : e \in {b \in Range(predicate) : b.kind = "BinaryOp"}}

\* The tables that only a subquery inside an operand of the WHERE or HAVING
\* binary expression of the select refers to, the operand being no subquery.
BuriedNames(s) ==
  UNION {QueryNames(q) :
           q \in UNION {SubqueriesIn(o) :
                          o \in {x \in OperandsOf(s.selection) \cup OperandsOf(s.having) :
                                   x.kind # "Subquery"}}}
    \ (FromNames(s.from)
         \cup UNION {QueryNames(o.subquery) :
                       o \in {x \in OperandsOf(s.selection) \cup OperandsOf(s.having) :
                                x.kind = "Subquery"}})

(***************************************************************************)
(* C21  Shallow predicate limit.  A turn of the loop on a query whose      *)
(* select has a WHERE or HAVING binary expression hands no table to the    *)
(* resolver, and records none, that only a subquery inside an operand      *)
(* refers to when the operand is not itself a subquery.                    *)
(***************************************************************************)
ShallowPredicateLimit ==
  [][(pc = "loop" /\ idx < Len(Pieces)) =>
       \A s \in SelectsOf(Piece) : \A name \in BuriedNames(s) :
         /\ \A i \in DOMAIN resolved' : resolved'[i].name # name
         /\ Qualified(current_database, name)
              \notin Range(Drop(all_table_names', Len(all_table_names)))]_vars

\* select * from t1 where x = 1 and exists (select * from t2) has recorded
\* t1 alone.
ShallowPredicateLimitWitness ==
  /\ given.text = Sql.where_and_exists
  /\ idx = 1
  /\ all_table_names = <<"default.t1">>
  /\ \E s \in SelectsOf(Pieces[1]) : BuriedNames(s) = {<<"t2">>}

\* The select that is the body of a statement the select handler is given:
\* a query or a CREATE VIEW.
HandledSelects(piece) ==
  {stmt.query.body.select :
     stmt \in {x \in Range(parse_sql(Clean(piece)).ast) :
                 /\ x.kind \in {"Query", "CreateView"}
                 /\ x.query.body.kind = "Select"}}

\* The relations of a FROM entry: the primary one and the joined ones.
RelationsOf(table_with_joins) ==
  {table_with_joins.relation}
    \cup {table_with_joins.joins[j].relation : j \in DOMAIN table_with_joins.joins}

\* The names a relation is to give: its own for a table, those of its
\* query for a derived table.
RelationNames(relation) ==
  CASE relation.kind = "Table" -> {relation.name}
    [] relation.kind = "Derived" -> QueryNames(relation.subquery)
    [] OTHER -> {}

\* The names to be recorded for a FROM clause: those of each entry whose
\* primary relation is a table or a derived table.
EntryNames(from) ==
  UNION {RelationNames(r) :
           r \in UNION {RelationsOf(from[i]) :
                          i \in {k \in DOMAIN from :
                                   from[k].relation.kind \in {"Table", "Derived"}}}}

\* The names inside the relations of another kind.
OtherNames(from) ==
  UNION {FromNames(<<r.table_with_joins>>) :
           r \in {x \in UNION {RelationsOf(from[i]) : i \in DOMAIN from} :
                    x.kind = "NestedJoin"}}

(***************************************************************************)
(* C22  FROM handling in the select handler.  A turn of the loop on a      *)
(* query records, for each FROM entry whose primary relation is a table or *)
(* a derived table, the table or the tables of the derived query, and the  *)
(* same for every joined relation of the entry; a relation of another kind *)
(* gives no name.                                                          *)
(***************************************************************************)
FromHandling ==
  [][(pc = "loop" /\ idx < Len(Pieces)) =>
       \A s \in HandledSelects(Piece) :
         /\ \A name \in EntryNames(s.from) :
              /\ \E i \in DOMAIN resolved' : resolved'[i].name = name
              /\ Concat(name) \notin AliasesOf(Piece)
                   => get_actual_table_name(Self, name)
                        \in Range(Drop(all_table_names', Len(all_table_names)))
         /\ \A name \in OtherNames(s.from) \ EntryNames(s.from) :
              \A i \in DOMAIN resolved' : resolved'[i].name # name]_vars

\* The derived primary relation, the joined table and the joined derived
\* table of from_derived have been recorded in their order.
FromHandlingWitness ==
  /\ given.text = Sql.from_derived
  /\ idx = 1
  /\ all_table_names = <<"default.t1", "db1.t2", "default.t3">>

(***************************************************************************)
(* C23  The resolver tests the origin name.  A reference handed to the     *)
(* resolver is recorded exactly when its parts, written one after the      *)
(* other with nothing between them, are not in cte_names at that time; a   *)
(* recorded reference of two parts db and c stands as db.c.                *)
(***************************************************************************)
OriginNameTest ==
  /\ \A i \in DOMAIN resolved :
       resolved[i].recorded <=> Concat(resolved[i].name) \notin resolved[i].cte_names
  /\ Len(Recorded) <= Len(all_table_names)
  /\ \A k \in DOMAIN Recorded :
       Len(Recorded[k].name) = 2 =>
         Newest(all_table_names, Len(Recorded))[k]
           = Recorded[k].name[1] \o "." \o Recorded[k].name[2]

\* With the aliases c and dbt in force, db.c has been recorded and db.t
\* has not.
OriginNameTestWitness ==
  /\ given.text = Sql.with_dotted
  /\ idx = 1
  /\ all_table_names = <<"default.t1", "db.c">>
  /\ \E i \in DOMAIN resolved :
       /\ resolved[i].name = <<"db", "c">>
       /\ "c" \in resolved[i].cte_names
       /\ resolved[i].recorded
  /\ \E i \in DOMAIN resolved :
       /\ resolved[i].name = <<"db", "t">>
       /\ "dbt" \in resolved[i].cte_names
       /\ ~resolved[i].recorded

\* cte_names when the statement of the piece has been walked and the fold
\* begins.
CtesAtFold(piece) == handle_query(Self, Clean(piece)).self.cte_names

(***************************************************************************)
(* C24  Fold-time CTE filter.  A turn of the loop on a statement adds to   *)
(* all_table_names no reference whose un-qualified name is in cte_names    *)
(* when the fold begins, even a reference that was recorded before its     *)
(* alias was registered.                                                   *)
(***************************************************************************)
FoldTimeFilter ==
  [][(pc = "loop" /\ idx < Len(Pieces)
        /\ ~IsSkipped(Clean(Piece)) /\ ~IsSwitch(Clean(Piece))) =>
       \A i \in DOMAIN resolved' :
         Concat(resolved'[i].name) \in CtesAtFold(Piece)
           => get_actual_table_name(Self, resolved'[i].name)
                \notin Range(Drop(all_table_names', Len(all_table_names)))]_vars

(***************************************************************************)
(* C25  Scratch state is statement-scoped.  Between two turns of the loop  *)
(* and whenever parse has returned, with Ok or with an error, table_names  *)
(* and cte_names are empty, whatever the calls made on the session.        *)
(***************************************************************************)
ScratchIsStatementScoped ==
  /\ table_names = <<>>
  /\ cte_names = {}

\* A statement whose walk registered an alias and recorded a table has been
\* folded.
ScratchIsStatementScopedWitness ==
  /\ given.text = WithC
  /\ idx = 1
  /\ Len(Recorded) >= 1
  /\ \E i \in DOMAIN resolved : resolved[i].cte_names # {}
  /\ table_names = <<>>
  /\ cte_names = {}

\* The words of the inputs that are written with capital letters.
Capitals == {w \in UNION {Range(b) : b \in WalkBatches} : Lower(w) # w}

\* The name has a part written with capital letters.
HasCapitals(n) ==
  \E u \in Capitals, w \in Identifiers \cup Capitals :
    n = u \o "." \o w \/ n = w \o "." \o u

(***************************************************************************)
(* C26  Case folding.  No name of all_table_names and not current_database *)
(* holds a capital letter; the turn on USE DB1 has stored db1, and the     *)
(* turns on statements that begin with USE or SET in capitals have not     *)
(* failed.                                                                 *)
(***************************************************************************)
CaseFolding ==
  /\ current_database \notin Capitals
  /\ \A i \in DOMAIN all_table_names : ~HasCapitals(all_table_names[i])
  /\ idx >= 1 /\ trim(Pieces[idx]) = UseUpper => current_database = "db1"
  /\ (idx >= 1 /\ trim(Pieces[idx]) \in {UseUpper, Sql.upper_set})
       => /\ result # "err"
          /\ resolved = <<>>

\* USE DB1; SELECT * FROM T1 join DB1.T1 has recorded its two references in
\* small letters.
CaseFoldingWitness ==
  /\ given.text = Semi(UseUpper, Sql.upper_select)
  /\ idx = 2
  /\ current_database = "db1"
  /\ all_table_names = <<"db1.t1", "db1.t1">>

\* The pieces written one after the other with a ";" between two of them.
RECURSIVE JoinPieces(_)
JoinPieces(pieces) ==
  IF Len(pieces) = 1 THEN pieces[1]
  ELSE pieces[1] \o <<";">> \o JoinPieces(Tail(pieces))

(***************************************************************************)
(* C27  Naive statement splitting.  The pieces of the loop are the input   *)
(* cut at every ";", inside a string literal or a comment as anywhere      *)
(* else; a turn of the loop takes the next piece and does to the session   *)
(* what the piece alone does to a session with the same current database;  *)
(* a piece that is empty once cleaned leaves the session unchanged.        *)
(***************************************************************************)
NaiveSplitting ==
  [][(pc = "loop" /\ idx < Len(Pieces)) =>
       /\ Len(Pieces) = Count(";", queries) + 1
       /\ \A k \in DOMAIN Pieces : Count(";", Pieces[k]) = 0
       /\ JoinPieces(Pieces) = queries
       /\ idx' = idx + 1
       /\ Bind(ParseStep([New EXCEPT !.current_database = current_database], Piece),
               LAMBDA alone :
                 /\ alone.ok <=> pc' = "loop"
                 /\ alone.ok <=> result' # "err"
                 /\ all_table_names' = all_table_names \o alone.self.all_table_names
                 /\ current_database' = alone.self.current_database)
       /\ Clean(Piece) = <<>> =>
            UNCHANGED <<current_database, all_table_names, table_names, cte_names>>]_vars

\* The ";" inside the string literal has cut the statement in two, and the
\* first piece has made parse return an error.
NaiveSplittingWitness ==
  /\ given.text = Sql.literal
  /\ Len(Pieces) = 2
  /\ idx = 1
  /\ result = "err"
  /\ all_table_names = <<>>

(***************************************************************************)
(* C28  Termination.  A call of parse returns, with Ok or with an error;   *)
(* each turn of the loop goes to the next piece, and the walk of a         *)
(* statement hands no more references to the resolver than the statement   *)
(* has tokens.                                                             *)
(***************************************************************************)
Termination ==
  /\ (pc = "loop") ~> (pc = "idle" /\ result \in {"ok", "err"})
  /\ [][pc = "loop" => idx' = idx + 1 \/ (idx = Len(Pieces) /\ pc' = "idle")]_vars
  /\ [](idx >= 1 => Len(resolved) <= Len(Tokenize(Clean(Pieces[idx])).toks))

\* The call on the statement with a WITH clause inside a derived table has
\* returned.
TerminationWitness ==
  /\ given.text = Semi(UseDb1, Sql.with_nested)
  /\ pc = "idle"
  /\ result = "ok"
  /\ idx = 2
  /\ Len(resolved) = 4


\* The cleaned statement begins with the keyword use and a space.
UseSpace(query) == Len(query) >= 2 /\ query[1] = "use" /\ query[2] = " "

\* The cleaned statement begins with the keyword set and a space.
SetSpace(query) == Len(query) >= 2 /\ query[1] = "set" /\ query[2] = " "

(***************************************************************************)
(* C29  Database-switch recognition.  A turn of the loop on a cleaned      *)
(* statement that begins with "use " does not fail and resolves no         *)
(* reference, whatever the SQL parser would say of the statement; it sets  *)
(* current_database to the second token when the statement has exactly two *)
(* tokens and changes nothing of the session otherwise.  A turn on any     *)
(* other statement leaves current_database alone, and when the statement   *)
(* is not skipped it returns an error exactly when the SQL parser rejects  *)
(* the statement.                                                          *)
(***************************************************************************)
SwitchRecognition ==
  [][(pc = "loop" /\ idx < Len(Pieces)) =>
       IF UseSpace(Clean(Piece))
         THEN /\ pc' = "loop"
              /\ result' = "none"
              /\ resolved' = <<>>
              /\ UNCHANGED <<all_table_names, table_names, cte_names>>
              /\ current_database' =
                   IF Len(split_whitespace(Clean(Piece))) = 2
                     THEN Concat(split_whitespace(Clean(Piece))[2])
                     ELSE current_database
         ELSE /\ current_database' = current_database
              /\ (Clean(Piece) # <<>> /\ ~SetSpace(Clean(Piece))) =>
                   ((pc' = "idle" /\ result' = "err") <=> ~parse_sql(Clean(Piece)).ok)]_vars

\* After use db1, the turn on use db2 db3, a statement the SQL parser
\* rejects, has gone by: no error, and the database is still db1.
SwitchRecognitionWitness ==
  /\ given.text = Semi(UseDb1, Sql.use_three)
  /\ idx = 2
  /\ pc = "loop"
  /\ result = "none"
  /\ UseSpace(Clean(Pieces[2]))
  /\ ~parse_sql(Clean(Pieces[2])).ok
  /\ current_database = "db1"
  /\ all_table_names = <<>>


\* The un-qualified name the resolver tested for the i-th reference of the
\* statement walked last.
TestedName(i) == get_origin_table_name(resolved[i].name)

(***************************************************************************)
(* C30  cte_names is one flat set that only grows during the walk of a     *)
(* statement.  Along the references of one statement the set the resolver  *)
(* saw never loses an alias; a reference whose name is an alias some       *)
(* earlier reference of the statement already saw registered is not        *)
(* recorded, in whatever scope it stands; every set seen is part of the    *)
(* set held when the walk ends, whose members are aliases of the WITH      *)
(* clauses of the statement; and between statements the set is empty.      *)
(***************************************************************************)
FlatCteNames ==
  /\ cte_names = {}
  /\ \A j \in DOMAIN resolved :
       /\ \A i \in 1..j :
            /\ resolved[i].cte_names \subseteq resolved[j].cte_names
            /\ TestedName(j) \in resolved[i].cte_names => ~resolved[j].recorded
       /\ resolved[j].cte_names \subseteq CtesAtFold(Pieces[idx])
  /\ (idx >= 1 /\ resolved # <<>>) =>
       CtesAtFold(Pieces[idx]) \subseteq WithAliases(Tokenize(Clean(Pieces[idx])).toks)

\* The WITH clause stands in the right operand of the predicate, which is
\* walked first: the reference to c in the left operand, a sibling scope
\* that comes earlier in the text, is suppressed as the one inside is.
FlatCteNamesWitness ==
  /\ given.text = Sql.with_predicate
  /\ idx = 1
  /\ Len(resolved) = 4
  /\ resolved[1].cte_names = {} /\ resolved[1].recorded
  /\ resolved[2].cte_names = {"c"} /\ resolved[2].recorded
  /\ TestedName(3) = "c" /\ ~resolved[3].recorded
  /\ TestedName(4) = "c" /\ ~resolved[4].recorded
  /\ all_table_names = <<"default.t1", "default.t2">>
  /\ cte_names = {}

====
